---- MODULE Spec2Model ----
(***************************************************************************)
(* A model of the core storage and commit engine of the repository:        *)
(*   - the depth-aware node cache and the tree loaders of                  *)
(*     core/v_latest/index/commit_merkle_tree.rs (read_node, read_depth,   *)
(*     reconstruct_from_cache, read_file, ...),                            *)
(*   - the commit writer, the branch ref, the writer lock and the version  *)
(*     store, whose code is outside the source tree at hand and is         *)
(*     modelled from the design document,                                  *)
(*   - the S3 version store of storage/s3.rs.                              *)
(*                                                                         *)
(* Options are sequences of length 0 (None) or 1 (Some).  Hashes are       *)
(* modelled by the hashed structure itself, which makes the digest         *)
(* collision free.                                                         *)
(***************************************************************************)
EXTENDS Integers, Sequences, FiniteSets, TLC

VARIABLES
    nodeDBs,     \* hash -> node DB of a non-leaf node (own header, children)
    dirHashes,   \* commit hash -> (directory path -> DirNode hash)
    commits,     \* the commits the branch went through: hash, files, in order
    cache,       \* the repository's NodeCache: capacity, entries (most recent first)
    loads,       \* loads served since the cache was last created
    versions,    \* VersionStore: blob hash -> bytes, and how often written
    staging,     \* VersionStore: temporary keys of puts in progress
    putPc,       \* per uploader: position in put()
    storageType, \* VersionStore: the back-end, "local" or "s3"
    branchRef,   \* the value stored in refs/heads/main
    refTmp,      \* the temporary file of the ref's write-then-rename
    lockHolder,  \* the writers that hold .hidden/lock
    wr,          \* per writer: position and working data of its commit
    rd,          \* the concurrent reader: position and what it loaded
    disk,        \* fork: per repository path, whether it exists and its files
    fk,          \* fork: per destination, the position of its worker thread
    written,     \* fork: per destination, the records its worker appended
    startRes,    \* fork: the start_fork calls made and what they returned
    shutdown,    \* fork: the destinations whose worker was told to shut down
    thr,         \* per thread: its position in read_node / read_depth
    mutex,       \* the threads that hold the mutex of the NodeCache
    cv,          \* per commit: the position of content_validator::compute
    registry,    \* NODE_CACHES: its mutex and the cache of each repository
    arcs,        \* the caches ever created, each behind its own mutex
    ru           \* per thread: its call on NODE_CACHES and a cache

vars == <<nodeDBs, dirHashes, commits, cache, loads, versions, staging,
          putPc, storageType, branchRef, refTmp, lockHolder, wr, rd,
          disk, fk, written, startRes, shutdown, thr, mutex, cv,
          registry, arcs, ru>>

cacheVars == <<cache, loads>>
repoVars == <<nodeDBs, dirHashes, commits, versions, branchRef, refTmp,
              lockHolder, wr, rd>>
storeVars == <<staging, putPc, storageType>>
forkVars == <<disk, fk, written, startRes, shutdown>>
threadVars == <<thr, mutex>>
registryVars == <<registry, arcs, ru>>
extVars == <<forkVars, threadVars, cv, registryVars>>

----------------------------------------------------------------------------
(* Bounds of the model *)

NODE_CACHE_SIZE == 20000000

\* Entries a scaled-down NodeCache holds before it evicts.
CacheCap == 3
\* Largest finite depth a read_depth request asks for.
MaxDepth == 1
\* Loads served by one cache before it is dropped.
MaxLoads == 3
\* Entries per VNode (the repository's vnode_size, scaled down).
VNodeSize == 2
\* Commits a run attempts on top of the initial one.
MaxCommits == 2
\* Calls of start_fork in one run.
MaxForks == 2
\* The loops of content_validator::compute, scaled down: the sleeps of the
\* calculation (10), the temporary files (1000), the sleeps of 1000 s (10).
CalcSleeps == 2
TempFiles == 2
LatencySleeps == 2

----------------------------------------------------------------------------
(* Options, sequences *)

None == <<>>
Some(x) == <<x>>
IsSome(o) == Len(o) = 1
Unwrap(o) == o[1]

Max(a, b) == IF a >= b THEN a ELSE b
Range(f) == {f[x] : x \in DOMAIN f}

RECURSIVE SeqOfSet(_)
SeqOfSet(S) == IF S = {} THEN <<>>
               ELSE LET x == CHOOSE y \in S : TRUE
                    IN <<x>> \o SeqOfSet(S \ {x})

----------------------------------------------------------------------------
(* Paths and names.  A path is the sequence of its components; the empty   *)
(* sequence is the repository root "".                                     *)

\* File contents: byte strings, BytesX a proper prefix of BytesY.
BytesX == <<1>>
BytesY == <<1, 2>>
BytesZ == <<2>>

AllNames == <<"a", "b", "c", "s">>
NameIndex(n) == CHOOSE i \in 1..Len(AllNames) : AllNames[i] = n

PathA == <<"a">>
PathB == <<"b">>
PathC == <<"s", "c">>
FilePaths == {PathA, PathB, PathC}
\* Paths asked of the loaders: the file paths, the directories, a missing one.
QueryPaths == FilePaths \cup {<<>>, <<"s">>, <<"c">>, <<"s", "a">>}

\* Path::parent: None for the empty path.
Parent(p) == IF Len(p) = 0 THEN None ELSE Some(SubSeq(p, 1, Len(p) - 1))
FileName(p) == p[Len(p)]

\* util::hasher::hash_buffer_128bit of the path's text: a fixed function of
\* the path, here the sum of its components' codes.
RECURSIVE hash_buffer_128bit(_)
hash_buffer_128bit(p) ==
    IF Len(p) = 0 THEN 7
    ELSE 3 * NameIndex(p[Len(p)]) + 5 * hash_buffer_128bit(SubSeq(p, 1, Len(p) - 1))

----------------------------------------------------------------------------
(* Nodes.  EMerkleTreeNode is the payload; MerkleTreeNode the tree value.  *)

Payload(t, n, k, b) == [ntype |-> t, name |-> n, num_entries |-> k, data |-> b]

node_type(n) == n.ntype
is_leaf(n) == n.ntype \in {"File", "FileChunk"}

MerkleTreeNode(h, n, p, ch) ==
    [hash |-> h, node |-> n, parent_id |-> p, children |-> ch]

\* A header as a node DB stores it: a MerkleTreeNode without children.
Header(h, n, p) == MerkleTreeNode(h, n, p, <<>>)

----------------------------------------------------------------------------
(* Tree construction (commit build), section 4.3 of the design: a          *)
(* directory with N entries is split into ceil(N / vnode_size) VNodes, an  *)
(* entry with path p goes to bucket hash128(p) mod num_vnodes, the entries *)
(* of a VNode are sorted by name, and every hash is a function of the      *)
(* node's payload and of its children's hashes.                            *)

IsUnder(d, p) == Len(d) < Len(p) /\ SubSeq(p, 1, Len(d)) = d

DirsOf(files) ==
    {<<>>} \cup UNION {{SubSeq(p, 1, k) : k \in 0..(Len(p) - 1)} : p \in DOMAIN files}

EntryNames(files, d) ==
    {q[Len(d) + 1] : q \in {p \in DOMAIN files : IsUnder(d, p)}}

SortedNames(S) == SelectSeq(AllNames, LAMBDA n : n \in S)

NumVNodes(n) == (n + VNodeSize - 1) \div VNodeSize

\* The FileNode hash is the digest of the file's bytes, the key of its blob.
FileHash(content) == <<"F", content>>

RECURSIVE BuildDir(_, _)
BuildEntry(files, p) ==
    IF p \in DOMAIN files
    THEN MerkleTreeNode(FileHash(files[p]),
                        Payload("File", FileName(p), 0, Len(files[p])), None, <<>>)
    ELSE BuildDir(files, p)

\* A bug: the hash of a VNode covers every entry of the directory.
BuildVNode_HashAll(d, entries, nv, b) ==
    LET mine == SelectSeq(entries,
                    LAMBDA e : hash_buffer_128bit(Append(d, e.node.name)) % nv = b)
        h == <<"V", b,
               [i \in 1..Len(entries) |-> <<entries[i].node.name, entries[i].hash>>]>>
    IN MerkleTreeNode(h, Payload("VNode", "", Len(mine), 0), None, mine)

BuildVNode(d, entries, nv, b) ==
    LET mine == SelectSeq(entries,
                    LAMBDA e : hash_buffer_128bit(Append(d, e.node.name)) % nv = b)
        h == <<"V", [i \in 1..Len(mine) |-> <<mine[i].node.name, mine[i].hash>>]>>
    IN MerkleTreeNode(h, Payload("VNode", "", Len(mine), 0), None, mine)

BuildDir(files, d) ==
    LET names == SortedNames(EntryNames(files, d))
        entries == [i \in 1..Len(names) |-> BuildEntry(files, Append(d, names[i]))]
        n == Len(names)
        nv == NumVNodes(n)
        vnodes == [b \in 1..nv |-> BuildVNode(d, entries, nv, b - 1)]
        name == IF Len(d) = 0 THEN "" ELSE FileName(d)
        h == <<"D", name, n, [b \in 1..nv |-> vnodes[b].hash]>>
    IN MerkleTreeNode(h, Payload("Dir", name, n, 0), None, vnodes)

\* The CommitNode: message (here the commit's number), parent ids, root dir.
BuildCommit(files, msg, parents) ==
    LET root == BuildDir(files, <<>>)
    IN MerkleTreeNode(<<"C", msg, parents, root.hash>>,
                      Payload("Commit", "", 0, msg), None, <<root>>)

RECURSIVE SetParents(_, _)
SetParents(t, p) ==
    MerkleTreeNode(t.hash, t.node, p,
        [i \in 1..Len(t.children) |-> SetParents(t.children[i], Some(t.hash))])

RECURSIVE NonLeaves(_)
NonLeaves(t) ==
    IF is_leaf(t.node) THEN {}
    ELSE {t} \cup UNION {NonLeaves(t.children[i]) : i \in 1..Len(t.children)}

RECURSIVE Leaves(_)
Leaves(t) ==
    IF is_leaf(t.node) THEN {t}
    ELSE UNION {Leaves(t.children[i]) : i \in 1..Len(t.children)}

\* The node DB of a non-leaf node: its own header and its children's headers.
NodeDBOf(t) ==
    [self |-> Header(t.hash, t.node, t.parent_id),
     children |-> [i \in 1..Len(t.children) |->
                      Header(t.children[i].hash, t.children[i].node,
                             t.children[i].parent_id)]]

\* A bug: the DB of a directory is keyed by the directory's name.
DBKey_ByName(h) == IF h[1] = "D" THEN <<"D", h[2]>> ELSE h

\* The key of a node's DB: its hash (tree/<hash-prefix>/<hash>/).
DBKey(h) == h

\* The node DBs of a tree, as the writer leaves them: one per non-leaf node.
DBsOfTree(t) ==
    LET nl == NonLeaves(t)
    IN [k \in {DBKey(x.hash) : x \in nl} |->
           NodeDBOf(CHOOSE x \in nl : DBKey(x.hash) = k)]

\* A bug: the index has no entry for the repository root.
DirHashesOf_NoRoot(files) ==
    [d \in DirsOf(files) \ {<<>>} |-> BuildDir(files, d).hash]

\* The dir_hashes index of a commit over files.
DirHashesOf(files) == [d \in DirsOf(files) |-> BuildDir(files, d).hash]

CommitTree(files, msg, parents) == SetParents(BuildCommit(files, msg, parents), None)

----------------------------------------------------------------------------
(* MerkleNodeDB: one store per non-leaf node, holding the node's own       *)
(* header and the ordered headers of its children.                         *)

MerkleNodeDB_exists(db, h) == DBKey(h) \in DOMAIN db
\* A bug: the node read from a DB is the header of its first child.
from_hash_FirstChild(db, h) == db[DBKey(h)].children[1]

\* MerkleTreeNode::from_hash: the node's own header, read from its DB.
from_hash(db, h) == db[DBKey(h)].self
MerkleNodeDB_map(db, h) == db[DBKey(h)].children

----------------------------------------------------------------------------
(* The NodeCache: an LruCache<MerkleHash, CachedNode>, most recent first.  *)

from_tree_node(node, depth, is_recursive) ==
    [hash |-> node.hash,
     node |-> node.node,
     parent_id |-> node.parent_id,
     child_hashes |-> [i \in 1..Len(node.children) |-> node.children[i].hash],
     loaded_depth |-> depth,
     is_recursive |-> is_recursive]

satisfies_depth(cached, requested_depth, requested_recursive) ==
    IF requested_recursive /\ ~cached.is_recursive THEN FALSE
    ELSE IF cached.is_recursive \/ cached.loaded_depth = -1 THEN TRUE
    ELSE cached.loaded_depth >= requested_depth

\* LruCache::new(cap)
LruNew(cap) == [cap |-> cap, items |-> <<>>]

\* A bug: a miss drops the least recently used entry.
LruGet_MissDrops(c, h) ==
    LET s == c.items
    IN IF \E i \in 1..Len(s) : s[i].hash = h
       THEN LET i == CHOOSE j \in 1..Len(s) : s[j].hash = h
            IN [val |-> Some(s[i]),
                cache |-> [c EXCEPT !.items = <<s[i]>> \o SubSeq(s, 1, i - 1)
                                                  \o SubSeq(s, i + 1, Len(s))]]
       ELSE [val |-> None, cache |-> [c EXCEPT !.items = SubSeq(s, 1, Len(s) - 1)]]

\* LruCache::get: the entry, moved to the front.
LruGet(c, h) ==
    LET s == c.items
    IN IF \E i \in 1..Len(s) : s[i].hash = h
       THEN LET i == CHOOSE j \in 1..Len(s) : s[j].hash = h
            IN [val |-> Some(s[i]),
                cache |-> [c EXCEPT !.items = <<s[i]>> \o SubSeq(s, 1, i - 1)
                                                  \o SubSeq(s, i + 1, Len(s))]]
       ELSE [val |-> None, cache |-> c]

\* A bug: leaf nodes are not put into the cache.
LruPut_SkipLeaves(c, e) ==
    LET all == <<e>> \o SelectSeq(c.items, LAMBDA x : x.hash # e.hash)
    IN IF is_leaf(e.node) THEN c
       ELSE [c EXCEPT !.items = IF Len(all) > c.cap THEN SubSeq(all, 1, c.cap) ELSE all]

\* A bug: an eviction also drops the entries of the evicted node's children.
LruPut_EvictChildren(c, e) ==
    LET all == <<e>> \o SelectSeq(c.items, LAMBDA x : x.hash # e.hash)
    IN [c EXCEPT !.items =
           IF Len(all) > c.cap
           THEN SelectSeq(SubSeq(all, 1, c.cap),
                          LAMBDA x : x.parent_id # Some(all[Len(all)].hash))
           ELSE all]

\* LruCache::put: insert or replace at the front, evicting the least
\* recently used entry beyond the capacity.
LruPut(c, e) ==
    LET all == <<e>> \o SelectSeq(c.items, LAMBDA x : x.hash # e.hash)
    IN [c EXCEPT !.items = IF Len(all) > c.cap THEN SubSeq(all, 1, c.cap) ELSE all]

\* LruCache::peek, for the properties: the entry of h, if any, unmoved.
LruPeek(c, h) ==
    LET s == SelectSeq(c.items, LAMBDA x : x.hash = h)
    IN IF Len(s) = 0 THEN None ELSE Some(s[1])

Ok(v, c) == [kind |-> "ok", val |-> v, cache |-> c]
Err(c) == [kind |-> "err", val |-> None, cache |-> c]
Panic(c) == [kind |-> "panic", val |-> None, cache |-> c]

Push(node, child) == [node EXCEPT !.children = Append(@, child)]
HasChildren(t) == t \in {"Commit", "Dir", "VNode"}

RECURSIVE read_node_cached(_, _, _, _)
RECURSIVE reconstruct_from_cache(_, _, _, _, _)
RECURSIVE ReconstructChildren(_, _, _, _, _, _, _)
RECURSIVE read_children_from_node_cached(_, _, _, _, _)
RECURSIVE ChildrenFromNodeLoop(_, _, _, _, _, _)
RECURSIVE read_children_until_depth_cached(_, _, _, _, _, _)
RECURSIVE ChildrenUntilDepthLoop(_, _, _, _, _, _, _)

\* reconstruct_from_cache's loop after child i was loaded as r: an error is
\* returned (the ? operator), a found child is pushed, and the loop goes on.
ReconstructNext(db, hashes, i, node, requested_depth, requested_recursive, r) ==
    IF r.kind # "ok" THEN r
    ELSE ReconstructChildren(db, hashes, i + 1,
             IF IsSome(r.val) THEN Push(node, Unwrap(r.val)) ELSE node,
             requested_depth, requested_recursive, r.cache)

\* The loop of reconstruct_from_cache over cached.child_hashes.
ReconstructChildren(db, hashes, i, node, requested_depth, requested_recursive, c) ==
    IF i > Len(hashes) THEN Ok(Some(node), c)
    ELSE
      LET child_hash == hashes[i]
          child_depth ==
              IF requested_depth = -1 THEN -1
              ELSE IF node_type(node.node) = "Dir" THEN requested_depth
              ELSE requested_depth - 1
          g == LruGet(c, child_hash)
          r == IF IsSome(g.val)
                  /\ satisfies_depth(Unwrap(g.val), child_depth, requested_recursive)
               THEN reconstruct_from_cache(db, Unwrap(g.val), child_depth,
                                           requested_recursive, g.cache)
               ELSE read_node_cached(db, child_hash, requested_recursive, g.cache)
      IN ReconstructNext(db, hashes, i, node, requested_depth, requested_recursive, r)

reconstruct_from_cache(db, cached, requested_depth, requested_recursive, c) ==
    LET node == MerkleTreeNode(cached.hash, cached.node, cached.parent_id, <<>>)
    IN IF requested_depth = -1 \/ requested_depth >= 0
       THEN ReconstructChildren(db, cached.child_hashes, 1, node,
                                requested_depth, requested_recursive, c)
       ELSE Ok(Some(node), c)

\* read_children_from_node_cached's loop after child i was loaded as r: an
\* error is returned, the child is pushed and, when it was read from the
\* node DB (insert), put into the cache.
ChildrenFromNodeNext(db, children, i, node, recurse, r, insert) ==
    IF r.kind # "ok" THEN r
    ELSE ChildrenFromNodeLoop(db, children, i + 1, Push(node, Unwrap(r.val)), recurse,
             IF insert THEN LruPut(r.cache, from_tree_node(Unwrap(r.val), 0, recurse))
             ELSE r.cache)

\* The loop of read_children_from_node_cached over node_db.map().
ChildrenFromNodeLoop(db, children, i, node, recurse, c) ==
    IF i > Len(children) THEN Ok(Some(node), c)
    ELSE
      LET child == children[i]
          g == LruGet(c, child.hash)
      IN IF IsSome(g.val)
         THEN LET depth == IF recurse THEN -1 ELSE 0
                  r == reconstruct_from_cache(db, Unwrap(g.val), depth, recurse, g.cache)
              IN ChildrenFromNodeNext(db, children, i, node, recurse, r, FALSE)
         ELSE IF HasChildren(node_type(child.node))
         THEN IF recurse /\ ~MerkleNodeDB_exists(db, child.hash)
              THEN Ok(Some(node), g.cache)     \* "no child node db": return Ok(())
              ELSE LET r == IF recurse
                            THEN read_children_from_node_cached(db, child.hash, child,
                                                                recurse, g.cache)
                            ELSE Ok(Some(child), g.cache)
                   IN ChildrenFromNodeNext(db, children, i, node, recurse, r, TRUE)
         ELSE ChildrenFromNodeNext(db, children, i, node, recurse,
                                   Ok(Some(child), g.cache), TRUE)

\* node_db is the open DB of hash h; node is the node whose children are read.
read_children_from_node_cached(db, h, node, recurse, c) ==
    IF ~HasChildren(node_type(node.node)) \/ ~recurse THEN Ok(Some(node), c)
    ELSE ChildrenFromNodeLoop(db, MerkleNodeDB_map(db, h), 1, node, recurse, c)

\* read_children_until_depth_cached's loop after child i was loaded as r: an
\* error is returned, the child is pushed and, when it was read from the
\* node DB (insert), put into the cache with children_loaded_depth.
ChildrenUntilDepthNext(db, children, i, node, requested_depth, traversed_depth, r, insert, children_loaded_depth) ==
    IF r.kind # "ok" THEN r
    ELSE ChildrenUntilDepthLoop(db, children, i + 1, Push(node, Unwrap(r.val)),
             requested_depth, traversed_depth,
             IF insert
             THEN LruPut(r.cache, from_tree_node(Unwrap(r.val),
                                                 children_loaded_depth, FALSE))
             ELSE r.cache)

\* The loop of read_children_until_depth_cached over node_db.map().
ChildrenUntilDepthLoop(db, children, i, node, requested_depth, traversed_depth, c) ==
    IF i > Len(children) THEN Ok(Some(node), c)
    ELSE
      LET child == children[i]
          g == LruGet(c, child.hash)
      IN IF IsSome(g.val)
            /\ satisfies_depth(Unwrap(g.val), requested_depth - traversed_depth, FALSE)
         THEN LET r == reconstruct_from_cache(db, Unwrap(g.val),
                           requested_depth - traversed_depth, FALSE, g.cache)
              IN ChildrenUntilDepthNext(db, children, i, node, requested_depth,
                                        traversed_depth, r, FALSE, 0)
         ELSE IF HasChildren(node_type(child.node))
         THEN LET child_depth == IF node_type(child.node) = "VNode"
                                 THEN traversed_depth ELSE traversed_depth + 1
                  r == IF (requested_depth >= traversed_depth \/ requested_depth = -1)
                          /\ MerkleNodeDB_exists(db, child.hash)
                       THEN read_children_until_depth_cached(db, child.hash, child,
                                requested_depth, child_depth, g.cache)
                       ELSE Ok(Some(child), g.cache)
                  children_loaded_depth ==
                      IF requested_depth > child_depth \/ requested_depth = -1
                      THEN requested_depth - child_depth ELSE 0
              IN ChildrenUntilDepthNext(db, children, i, node, requested_depth,
                                        traversed_depth, r, TRUE, children_loaded_depth)
         ELSE ChildrenUntilDepthNext(db, children, i, node, requested_depth,
                                     traversed_depth, Ok(Some(child), g.cache), TRUE, 0)

read_children_until_depth_cached(db, h, node, requested_depth, traversed_depth, c) ==
    IF ~HasChildren(node_type(node.node)) THEN Ok(Some(node), c)
    ELSE ChildrenUntilDepthLoop(db, MerkleNodeDB_map(db, h), 1, node,
                                requested_depth, traversed_depth, c)

\* The end of read_node_cached and read_depth_cached: the node loaded from
\* the node DB as r is put into the cache; an error is returned.
PutLoaded(r, loaded_depth, is_recursive) ==
    IF r.kind # "ok" THEN r
    ELSE Ok(r.val, LruPut(r.cache, from_tree_node(Unwrap(r.val), loaded_depth,
                                                  is_recursive)))

read_node_cached(db, hash, recurse, c) ==
    LET requested_depth == IF recurse THEN -1 ELSE 0
        g == LruGet(c, hash)
    IN IF IsSome(g.val) /\ satisfies_depth(Unwrap(g.val), requested_depth, recurse)
       THEN reconstruct_from_cache(db, Unwrap(g.val), requested_depth, recurse, g.cache)
       ELSE IF ~IsSome(g.val) /\ ~MerkleNodeDB_exists(db, hash) THEN Ok(None, g.cache)
       ELSE
         LET node == IF IsSome(g.val)
                     THEN MerkleTreeNode(Unwrap(g.val).hash, Unwrap(g.val).node,
                                         Unwrap(g.val).parent_id, <<>>)
                     ELSE from_hash(db, hash)
             r == IF is_leaf(node.node) THEN Ok(Some(node), g.cache)
                  ELSE IF ~MerkleNodeDB_exists(db, hash) THEN Err(g.cache)
                  ELSE read_children_from_node_cached(db, hash, node, recurse, g.cache)
             depth == IF recurse THEN -1 ELSE 0
         IN PutLoaded(r, depth, recurse)

read_depth_cached(db, hash, depth, c) ==
    LET g == LruGet(c, hash)
    IN IF IsSome(g.val) /\ satisfies_depth(Unwrap(g.val), depth, FALSE)
       THEN reconstruct_from_cache(db, Unwrap(g.val), depth, FALSE, g.cache)
       ELSE IF ~IsSome(g.val) /\ ~MerkleNodeDB_exists(db, hash) THEN Ok(None, g.cache)
       ELSE
         LET node == IF IsSome(g.val)
                     THEN MerkleTreeNode(Unwrap(g.val).hash, Unwrap(g.val).node,
                                         Unwrap(g.val).parent_id, <<>>)
                     ELSE from_hash(db, hash)
             r == IF is_leaf(node.node) THEN Ok(Some(node), g.cache)
                  ELSE IF ~MerkleNodeDB_exists(db, hash) THEN Err(g.cache)
                  ELSE read_children_until_depth_cached(db, hash, node, depth, 0, g.cache)
         IN PutLoaded(r, depth, FALSE)

\* read_node / read_depth: the cached loaders run on the repository's cache.
read_node(db, hash, recurse, c) == read_node_cached(db, hash, recurse, c)
read_depth(db, hash, depth, c) == read_depth_cached(db, hash, depth, c)

----------------------------------------------------------------------------
(* Path lookup *)

RECURSIVE get_by_path(_, _)
\* MerkleTreeNode::get_by_path: from a Commit through its root directory,
\* from a Dir through its VNodes, in a VNode the child named path[1].
get_by_path(t, path) ==
    IF path = <<>> /\ node_type(t.node) # "Commit" THEN Some(t)
    ELSE IF node_type(t.node) \in {"Commit", "Dir"}
    THEN LET found == {i \in 1..Len(t.children) :
                          IsSome(get_by_path(t.children[i], path))}
         IN IF found = {} THEN None
            ELSE get_by_path(t.children[CHOOSE i \in found : \A j \in found : i <= j],
                             path)
    ELSE IF node_type(t.node) = "VNode"
    THEN LET found == {i \in 1..Len(t.children) : t.children[i].node.name = path[1]}
         IN IF found = {} THEN None
            ELSE get_by_path(t.children[CHOOSE i \in found : \A j \in found : i <= j],
                             Tail(path))
    ELSE None

\* read_file after the VNode of the file's bucket was read as r2: the file
\* is looked up in the VNode by its name.
ReadFileInVNode(file_name, r2) ==
    IF r2.kind # "ok" \/ ~IsSome(r2.val) THEN r2
    ELSE Ok(get_by_path(Unwrap(r2.val), <<file_name>>), r2.cache)

\* read_file after the parent directory was read as r1: the bucket of the
\* path picks one of the directory's VNodes, which is read at depth 0.
ReadFileInDir(db, path, file_name, r1) ==
    IF r1.kind # "ok" \/ ~IsSome(r1.val) THEN r1
    ELSE IF node_type(Unwrap(r1.val).node) # "Dir" THEN Err(r1.cache)
    ELSE
      LET vnodes == Unwrap(r1.val).children
          total_children == Unwrap(r1.val).node.num_entries
          \* (total_children as f32 / vnode_size as f32).ceil()
          num_vnodes == (total_children + VNodeSize - 1) \div VNodeSize
          bucket == hash_buffer_128bit(path) % num_vnodes
      IN IF num_vnodes = 0 THEN Ok(None, r1.cache)
         ELSE IF bucket >= Len(vnodes) THEN Panic(r1.cache)  \* vnodes[bucket]
         ELSE ReadFileInVNode(file_name,
                  read_depth(db, vnodes[bucket + 1].hash, 0, r1.cache))

\* read_file: skip to a file through the dir_hashes index.
read_file(db, dir_hashes, path, c) ==
    IF ~IsSome(Parent(path)) THEN Ok(None, c)
    ELSE
      LET parent_path == Unwrap(Parent(path))
          file_name == FileName(path)
      IN IF parent_path \notin DOMAIN dir_hashes THEN Ok(None, c)
         ELSE ReadFileInDir(db, path, file_name,
                            read_depth(db, dir_hashes[parent_path], 0, c))

\* from_path: a directory path is read as a node, any other path as a file.
\* A lookup that finds nothing is the error "Merkle tree hash not found".
NotFoundIsErr(r) == IF r.kind = "ok" /\ ~IsSome(r.val) THEN Err(r.cache) ELSE r

from_path(db, dir_hashes, path, load_recursive, c) ==
    NotFoundIsErr(IF path \in DOMAIN dir_hashes
                  THEN read_node(db, dir_hashes[path], load_recursive, c)
                  ELSE read_file(db, dir_hashes, path, c))

\* from_commit: the commit's tree, loaded recursively, and its dir_hashes.
from_commit(db, dh, commit, c) ==
    IF commit \in DOMAIN dh
    THEN NotFoundIsErr(read_node(db, commit, TRUE, c))
    ELSE Err(read_node(db, commit, TRUE, c).cache)

----------------------------------------------------------------------------
(* The VersionStore: a keyed blob store.  put writes the blob under its    *)
(* hash; a put of a hash that is already stored is a no-op.  A blob        *)
(* records how often it was written.                                       *)

Blob(data) == [data |-> data, writes |-> 1]

VersionStore_exists(store, h) == h \in DOMAIN store

\* A bug: put writes the blob again when the hash is already stored.
VersionStore_put_Rewrite(store, h, data) ==
    [x \in DOMAIN store \cup {h} |->
        IF x # h THEN store[x]
        ELSE [data |-> data,
              writes |-> IF h \in DOMAIN store THEN store[h].writes + 1 ELSE 1]]

VersionStore_put(store, h, data) ==
    IF VersionStore_exists(store, h) THEN store ELSE store @@ (h :> Blob(data))

NotFound == [kind |-> "NotFound", val |-> None]

VersionStore_get(store, h) ==
    IF VersionStore_exists(store, h) THEN [kind |-> "ok", val |-> Some(store[h].data)]
    ELSE NotFound

----------------------------------------------------------------------------
(* repositories/fork.rs: the status log of a fork, a file of bincode        *)
(* records appended one after the other, and the copy of the repository     *)
(* directory.  A file is a sequence of bytes; one field of a record (the    *)
(* variant index, a number, the length of a text) stands for its bytes.     *)

Repos == {"r0", "r1", "r2"}
FORK_STATUS_FILE == <<".oxen", "fork_status.toml">>
WORKSPACES == <<".oxen", "workspaces">>

\* ForkStatus
Started == <<"Started">>
Counting(n) == <<"Counting", n>>
InProgress(p) == <<"InProgress", p>>
Complete == <<"Complete">>
Failed(msg) == <<"Failed", msg>>

\* The texts of the errors, as bytes.
CopyError == <<7>>
Cancelled == <<9, 9>>

ForkOk(v) == [kind |-> "ok", val |-> v]
ForkErr(e) == [kind |-> "err", val |-> <<e>>]
fork_status_not_found == ForkErr("fork_status_not_found")
CorruptLog == ForkErr("Corrupt fork status log")

\* bincode::serialize_into: the variant index, then the fields; a text is
\* its length and its bytes.
serialize(status) ==
    CASE status[1] = "Started" -> <<0>>
      [] status[1] = "Counting" -> <<1, status[2]>>
      [] status[1] = "InProgress" -> <<2, status[2]>>
      [] status[1] = "Complete" -> <<3>>
      [] status[1] = "Failed" -> <<4, Len(status[2])>> \o status[2]

\* bincode::deserialize_from at position i of the log: a record and the
\* position after it, the end of the input inside (or before) a record, or
\* a variant index that no ForkStatus has.
deserialize_from(log, i) ==
    IF i > Len(log) THEN [kind |-> "eof"]
    ELSE IF log[i] \notin 0..4 THEN [kind |-> "invalid"]
    ELSE IF log[i] = 0 THEN [kind |-> "ok", val |-> Started, next |-> i + 1]
    ELSE IF log[i] = 3 THEN [kind |-> "ok", val |-> Complete, next |-> i + 1]
    ELSE IF i + 1 > Len(log) THEN [kind |-> "eof"]
    ELSE IF log[i] = 1 THEN [kind |-> "ok", val |-> Counting(log[i + 1]), next |-> i + 2]
    ELSE IF log[i] = 2 THEN [kind |-> "ok", val |-> InProgress(log[i + 1]), next |-> i + 2]
    ELSE IF i + 1 + log[i + 1] > Len(log) THEN [kind |-> "eof"]
    ELSE [kind |-> "ok", val |-> Failed(SubSeq(log, i + 2, i + 1 + log[i + 1])),
          next |-> i + 2 + log[i + 1]]

RECURSIVE ReadStatusLoop(_, _, _)
\* The loop of read_status: the last record that deserializes; the end of
\* the input ends the loop, any other error is a corrupt log.
ReadStatusLoop(log, i, last_status) ==
    LET d == deserialize_from(log, i)
    IN IF d.kind = "ok" THEN ReadStatusLoop(log, d.next, Some(d.val))
       ELSE IF d.kind = "eof" THEN ForkOk(last_status)
       ELSE CorruptLog

\* The files of a repository directory: their paths below it.
HasFile(d, r, p) == d[r].exists /\ p \in DOMAIN d[r].files

read_status(d, r) ==
    IF ~HasFile(d, r, FORK_STATUS_FILE) THEN ForkOk(None)
    ELSE ReadStatusLoop(d[r].files[FORK_STATUS_FILE], 1, None)

get_fork_status(d, r) ==
    LET s == read_status(d, r)
    IN IF s.kind # "ok" THEN s
       ELSE IF s.val = None THEN fork_status_not_found
       ELSE ForkOk(Unwrap(s.val))

\* The file at path p of repository r gets these bytes appended; the file
\* (and the directory it is in) is created when it is not there.
AppendBytes(d, r, p, bytes) ==
    [d EXCEPT ![r] = [exists |-> TRUE,
                      files |-> IF p \in DOMAIN d[r].files
                                THEN [d[r].files EXCEPT ![p] = @ \o bytes]
                                ELSE d[r].files @@ (p :> bytes)]]

\* write_status when nothing fails and the record reaches the file at once.
write_status(d, r, status) == AppendBytes(d, r, FORK_STATUS_FILE, serialize(status))

\* Path::ends_with(".oxen/workspaces") of the path p.
EndsWithWorkspaces(p) ==
    Len(p) >= 2 /\ SubSeq(p, Len(p) - 1, Len(p)) = WORKSPACES

\* count_items: the files below the directory, a file named
\* .oxen/workspaces excepted; what cannot be read is not counted.
count_items(d, r) ==
    IF ~d[r].exists THEN 0
    ELSE Cardinality({p \in DOMAIN d[r].files : ~EndsWithWorkspaces(p)})

\* copy_dir_recursive skips an entry whose path ends with .oxen/workspaces,
\* and with it everything below it.
Skipped(p) == \E k \in 1..Len(p) : EndsWithWorkspaces(SubSeq(p, 1, k))

\* The files copy_dir_recursive has still to copy.
ToCopy(d, src, done) == {p \in DOMAIN d[src].files : ~Skipped(p) /\ p \notin done}

\* fs::copy: the destination file is created or truncated and gets the
\* bytes of the source file.
fs_copy(d, src, dst, p) ==
    [d EXCEPT ![dst].files = IF p \in DOMAIN d[dst].files
                             THEN [d[dst].files EXCEPT ![p] = d[src].files[p]]
                             ELSE d[dst].files @@ (p :> d[src].files[p])]

Progress(copied_items, total_items) ==
    IF total_items > 0 THEN (copied_items * 100) \div total_items ELSE 100

\* A bug: a failed copy is recorded as progress.
FinalStatus_NoFailed(copied) == IF copied THEN Complete ELSE InProgress(0)

\* The record the worker ends with: copy_dir_recursive returned Ok or Err.
FinalStatus(copied) == IF copied THEN Complete ELSE Failed(CopyError)

\* A bug: the destination is not looked at.
start_fork_NoCheck(d, original_path, new_path, io) ==
    IF io = "create_dir_all fails" THEN [res |-> ForkErr("io"), disk |-> d, spawn |-> FALSE]
    ELSE IF io = "write_status fails"
    THEN [res |-> ForkErr("io"), disk |-> [d EXCEPT ![new_path].exists = TRUE],
          spawn |-> FALSE]
    ELSE [res |-> ForkOk(Started), disk |-> write_status(d, new_path, Counting(0)),
          spawn |-> TRUE]

\* start_fork up to thread::spawn: what it returns, the disk it leaves and
\* whether the worker was spawned.  io is what the file system does.
start_fork(d, original_path, new_path, io) ==
    IF d[new_path].exists
    THEN [res |-> ForkErr("A file already exists at the destination path"),
          disk |-> d, spawn |-> FALSE]
    ELSE IF io = "create_dir_all fails"
    THEN [res |-> ForkErr("io"), disk |-> d, spawn |-> FALSE]
    ELSE IF io = "write_status fails"
    THEN [res |-> ForkErr("io"), disk |-> [d EXCEPT ![new_path].exists = TRUE],
          spawn |-> FALSE]
    ELSE [res |-> ForkOk(Started), disk |-> write_status(d, new_path, Counting(0)),
          spawn |-> TRUE]

\* The repository that is forked: two files and the file of a workspace.
Repo0Files ==
    (<<"dir", "test_file.txt">> :> <<1>>) @@ (<<"README">> :> <<2>>)
        @@ (<<".oxen", "workspaces", "w1">> :> <<3>>)

NoRepo == [exists |-> FALSE, files |-> <<>>]
NoWrite == [rec |-> Started, sent |-> 0, ok |-> "none", err |-> "none"]
WorkerNone == [pc |-> "none", src |-> "r0", total |-> 0, copied |-> 0, done |-> {}, w |-> NoWrite]

InitForkIdle ==
    /\ disk = [r \in Repos |-> IF r = "r0" THEN [exists |-> TRUE, files |-> Repo0Files]
                               ELSE NoRepo]
    /\ fk = [r \in Repos |-> WorkerNone]
    /\ written = [r \in Repos |-> <<>>]
    /\ startRes = <<>>
    /\ shutdown = {}

----------------------------------------------------------------------------
(* The threads that load nodes, and the commits content_validator runs on. *)

Threads == {"t1", "t2"}
ThreadIdle == [pc |-> "idle", q |-> None]

InitThreadsIdle ==
    /\ thr = [t \in Threads |-> ThreadIdle]
    /\ mutex = {}

ValidatedCommits == {"c1", "c2"}
\* is_valid is the content of the commit's is_valid file, answer what the
\* last call of is_valid returned, finished the results of validate_tree_hash
\* of the computes that wrote their value.
ValidatorIdle == [pc |-> "idle", i |-> 0, tree |-> "valid", is_valid |-> None, answer |-> None, finished |-> {}]

InitValidatorIdle == cv = [c \in ValidatedCommits |-> ValidatorIdle]

\* The repositories whose caches NODE_CACHES holds.
CachedRepos == {"p1", "p2"}
CallIdle == [pc |-> "idle", repo |-> "p1", q |-> None, arc |-> 0, start |-> 0]

\* NODE_CACHES is empty and unlocked; no cache has been removed.
InitRegistryIdle ==
    /\ registry = [holder |-> {}, map |-> [p \in CachedRepos |-> 0],
                   removed |-> [p \in CachedRepos |-> 0]]
    /\ arcs = <<>>
    /\ ru = [t \in Threads |-> CallIdle]

InitExtIdle == InitForkIdle /\ InitThreadsIdle /\ InitValidatorIdle /\ InitRegistryIdle

----------------------------------------------------------------------------
(* The repository as TestRepoBuilder::build leaves it: init, the files     *)
(* written and added, one commit.                                          *)

Writers == {"w1", "w2"}
Uploaders == {"u1", "u2"}

InitMsg == <<"init", 0>>

WriterIdle == [pc |-> "idle", base |-> None, files |-> <<>>, n |-> 0, i |-> 0]
ReaderIdle == [pc |-> "idle", target |-> None, todo |-> <<>>, got |-> <<>>]
UploaderIdle == [pc |-> "idle", hash |-> None, src |-> <<>>]

CommitRecord(files, msg, parents) ==
    [hash |-> CommitTree(files, msg, parents).hash, files |-> files,
     msg |-> msg, parents |-> parents]

TreeOf(c) == CommitTree(c.files, c.msg, c.parents)

InitRepo(files) ==
    LET c == CommitRecord(files, InitMsg, <<>>)
    IN /\ nodeDBs = DBsOfTree(TreeOf(c))
       /\ dirHashes = (c.hash :> DirHashesOf(files))
       /\ commits = <<c>>
       /\ branchRef = Some(c.hash)
       /\ refTmp = None
       /\ lockHolder = {}
       /\ wr = [w \in Writers |-> WriterIdle]
       /\ rd = ReaderIdle

\* The store of a repository with these files committed; nothing was ever
\* stored on the S3 back-end.
InitStoreIdle(type, files) ==
    /\ versions = IF type = "s3" THEN <<>>
                  ELSE [h \in {FileHash(files[p]) : p \in DOMAIN files} |-> Blob(h[2])]
    /\ staging = [u \in Uploaders |-> <<>>]
    /\ putPc = [u \in Uploaders |-> UploaderIdle]
    /\ storageType = type

----------------------------------------------------------------------------
(* The repository the loaders are exercised on: one commit of three files, *)
(* two of them in the root (which therefore has two VNodes) and one in a   *)
(* sub-directory.                                                          *)

Files0 == (PathA :> BytesX) @@ (PathB :> BytesZ) @@ (PathC :> BytesY)
Tree0 == CommitTree(Files0, InitMsg, <<>>)
Commit0 == Tree0.hash

RECURSIVE AllNodes(_)
AllNodes(t) == {t} \cup UNION {AllNodes(t.children[i]) : i \in 1..Len(t.children)}

\* A hash no node has.
MissingHash == <<"F", <<>>>>
Hashes0 == {t.hash : t \in AllNodes(Tree0)} \cup {MissingHash}

Request(o, h, d, r, p) == [op |-> o, hash |-> h, depth |-> d, recurse |-> r, path |-> p]
Result(r) == [kind |-> r.kind, val |-> r.val]

\* What a request returns on the given cache.
Answer(db, dh, q, c) ==
    CASE q.op = "read_node" -> read_node(db, q.hash, q.recurse, c)
      [] q.op = "read_depth" -> read_depth(db, q.hash, q.depth, c)
      [] q.op = "from_path" -> from_path(db, dh[q.hash], q.path, q.recurse, c)

ReadNodeRequests ==
    {Request("read_node", h, IF r THEN -1 ELSE 0, r, <<>>) : h \in Hashes0, r \in BOOLEAN}
ReadDepthRequests ==
    {Request("read_depth", h, d, FALSE, <<>>) : h \in Hashes0, d \in -1..MaxDepth}
FromPathRequests ==
    {Request("from_path", Commit0, IF r THEN -1 ELSE 0, r, p) :
        p \in QueryPaths, r \in BOOLEAN}
Requests == ReadNodeRequests \cup ReadDepthRequests \cup FromPathRequests

InitRepo0 == InitRepo(Files0)

\* with_node_cache creates the cache with LruCache::new(NODE_CACHE_SIZE), which
\* no tree of the model fills; the scaled-down capacity makes evictions happen.
InitCache ==
    /\ InitRepo0
    /\ InitStoreIdle("local", Files0)
    /\ cache \in {LruNew(CacheCap), LruNew(NODE_CACHE_SIZE)}
    /\ loads = 0
    /\ InitExtIdle

Serve(q) ==
    /\ loads < MaxLoads
    /\ cache' = Answer(nodeDBs, dirHashes, q, cache).cache
    /\ loads' = loads + 1
    /\ UNCHANGED <<repoVars, storeVars, extVars>>

ReadNode == \E q \in ReadNodeRequests : Serve(q)

ReadDepth == \E q \in ReadDepthRequests : Serve(q)

FromPath == \E q \in FromPathRequests : Serve(q)

\* remove_node_cache: the repository's cache is dropped from NODE_CACHES; the
\* next with_node_cache creates an empty one.
RemoveNodeCache ==
    /\ cache' = LruNew(cache.cap)
    /\ loads' = 0
    /\ UNCHANGED <<repoVars, storeVars, extVars>>

NextCache == ReadNode \/ ReadDepth \/ FromPath \/ RemoveNodeCache

SpecCache == InitCache /\ [][NextCache]_vars

----------------------------------------------------------------------------
(* Properties of the cached loaders *)

\* C1: after any sequence of read_node, read_depth and remove_node_cache
\* calls, every read_node / read_depth request is answered from the cache
\* with the tree the same request returns from disk with an empty cache
\* (same node, same child lists at every level).
C1_CacheEqualsDisk ==
    \A q \in ReadNodeRequests \cup ReadDepthRequests :
        Result(Answer(nodeDBs, dirHashes, q, cache))
            = Result(Answer(nodeDBs, dirHashes, q, LruNew(NODE_CACHE_SIZE)))

\* C2: a file path of the commit looked up through dir_hashes (from_path /
\* read_file) is the FileNode that a walk of the fully loaded tree finds, and
\* a path that is not in the commit is not found (stated for the cache of
\* the program's size, which no lookup overflows).
C2_LookupEqualsWalk ==
    cache.cap = NODE_CACHE_SIZE =>
        \A p \in QueryPaths \ DOMAIN dirHashes[Commit0], r \in BOOLEAN :
            LET a == from_path(nodeDBs, dirHashes[Commit0], p, r, cache)
                walk == get_by_path(Tree0, p)
            IN IF IsSome(walk)
               THEN /\ a.kind = "ok"
                    /\ Unwrap(a.val).hash = Unwrap(walk).hash
                    /\ Unwrap(a.val).node = Unwrap(walk).node
               ELSE a.kind = "err"

\* from_path_depth: the directory at path, loaded to the given depth; a path
\* that is not a directory of the commit is an error.
from_path_depth(db, dir_hashes, path, depth, c) ==
    IF path \notin DOMAIN dir_hashes THEN Err(c)
    ELSE NotFoundIsErr(read_depth(db, dir_hashes[path], depth, c))

ChildHashes(t) == [i \in 1..Len(t.children) |-> t.children[i].hash]

Dirs0 == {t \in AllNodes(Tree0) : node_type(t.node) = "Dir"}
RootDir0 == Tree0.children[1]

\* C14: a directory loaded at depth 0, by read_depth or by from_path_depth,
\* comes with all of its VNodes, and every VNode has an empty children list.
C14_DepthZeroNoGrandchildren ==
    /\ \A t \in Dirs0 :
          LET a == read_depth(nodeDBs, t.hash, 0, cache)
          IN /\ a.kind = "ok" /\ IsSome(a.val)
             /\ ChildHashes(Unwrap(a.val)) = ChildHashes(t)
             /\ \A i \in 1..Len(Unwrap(a.val).children) :
                   /\ node_type(Unwrap(a.val).children[i].node) = "VNode"
                   /\ Unwrap(a.val).children[i].children = <<>>
    /\ \A p \in DOMAIN dirHashes[Commit0] :
          LET a == from_path_depth(nodeDBs, dirHashes[Commit0], p, 0, cache)
          IN /\ a.kind = "ok"
             /\ Unwrap(a.val).hash = dirHashes[Commit0][p]
             /\ \A i \in 1..Len(Unwrap(a.val).children) :
                   Unwrap(a.val).children[i].children = <<>>

RECURSIVE ExpectedAtDepth(_, _)
\* The directory t as a load at depth d is specified to return it: VNodes do
\* not count, a directory d levels below the loaded one has empty VNodes.
ExpectedAtDepth(t, d) ==
    [t EXCEPT !.children =
        [i \in 1..Len(t.children) |->
            IF d = 0 THEN [t.children[i] EXCEPT !.children = <<>>]
            ELSE [t.children[i] EXCEPT !.children =
                     [j \in 1..Len(t.children[i].children) |->
                         IF node_type(t.children[i].children[j].node) = "Dir"
                         THEN ExpectedAtDepth(t.children[i].children[j], d - 1)
                         ELSE t.children[i].children[j]]]]]

\* The File and Dir nodes below the root of a loaded tree.
Entries(t) == {x \in AllNodes(t) : node_type(x.node) \in {"File", "Dir"}} \ {t}

\* C15: VNodes do not consume depth.  The root directory loaded at depth
\* d >= 1 holds the File and Dir entries of exactly the directories nested
\* fewer than d levels below it, and a directory d levels below it carries
\* its VNodes with empty children (at depth 1: the root's own files and
\* sub-directories, no file of a sub-directory).
C15_VNodesTransparent ==
    \A d \in 1..MaxDepth :
        LET a == read_depth(nodeDBs, RootDir0.hash, d, cache)
        IN /\ a.kind = "ok" /\ IsSome(a.val)
           /\ {x.hash : x \in Entries(Unwrap(a.val))}
                 = {x.hash : x \in Entries(ExpectedAtDepth(RootDir0, d))}
           /\ Unwrap(a.val) = ExpectedAtDepth(RootDir0, d)

NonLeaves0 == NonLeaves(Tree0)

\* C16: a cache entry answers a request only if it covers it.  Whatever
\* shallow loads filled the cache (of the program's size), a recursive load
\* of a node returns its whole subtree, and a finite depth load returns it
\* with at least its immediate children.
C16_CoveredRequestsOnly ==
    cache.cap = NODE_CACHE_SIZE =>
        \A t \in NonLeaves0 :
            /\ Result(read_node(nodeDBs, t.hash, TRUE, cache))
                  = [kind |-> "ok", val |-> Some(t)]
            /\ \A d \in 0..MaxDepth :
                  LET a == read_depth(nodeDBs, t.hash, d, cache)
                  IN /\ a.kind = "ok" /\ IsSome(a.val)
                     /\ ChildHashes(Unwrap(a.val)) = ChildHashes(t)

Leaves0 == Leaves(Tree0)

\* C17: a leaf node requested by its hash while it is not in the cache is
\* not found: read_node (recursive or not) and read_depth return None and
\* leave the cache as it was.
C17_AbsentLeafNotFound ==
    \A t \in Leaves0 :
        ~IsSome(LruPeek(cache, t.hash)) =>
            /\ \A r \in BOOLEAN :
                  read_node(nodeDBs, t.hash, r, cache) = Ok(None, cache)
            /\ \A d \in -1..MaxDepth :
                  read_depth(nodeDBs, t.hash, d, cache) = Ok(None, cache)

\* Loads filled the cache with the VNode of a leaf, but not with the leaf.
C17_Witness ==
    /\ loads > 0
    /\ \E t \in Leaves0 :
          /\ ~IsSome(LruPeek(cache, t.hash))
          /\ IsSome(LruPeek(cache, Unwrap(t.parent_id)))

\* read_node of a leaf's hash returns the File node of that hash.
ReturnsLeaf(t, c) ==
    \A r \in BOOLEAN :
        LET a == read_node(nodeDBs, t.hash, r, c)
        IN /\ a.kind = "ok" /\ IsSome(a.val)
           /\ Unwrap(a.val).hash = t.hash
           /\ Unwrap(a.val).node = t.node
           /\ node_type(Unwrap(a.val).node) = "File"

\* C18: a leaf that is in the cache is returned by a direct read_node of its
\* hash, recursive or not; and after a load whose returned tree contains a
\* leaf, the leaf is in the cache (unless evicted during that load, which
\* the cache of the program's size never does) and is returned likewise.
C18_LoadedLeafServed ==
    /\ \A t \in Leaves0 : IsSome(LruPeek(cache, t.hash)) => ReturnsLeaf(t, cache)
    /\ \A q \in Requests :
          LET a == Answer(nodeDBs, dirHashes, q, cache)
          IN (a.kind = "ok" /\ IsSome(a.val)) =>
                \A t \in Leaves(Unwrap(a.val)) :
                    /\ cache.cap = NODE_CACHE_SIZE => IsSome(LruPeek(a.cache, t.hash))
                    /\ IsSome(LruPeek(a.cache, t.hash)) => ReturnsLeaf(t, a.cache)

\* A depth load and a recursive load left leaves in the cache.
C18_Witness ==
    /\ cache.cap = NODE_CACHE_SIZE
    /\ \E i, j \in 1..Len(cache.items) :
          /\ is_leaf(cache.items[i].node) /\ ~cache.items[i].is_recursive
          /\ is_leaf(cache.items[j].node) /\ cache.items[j].is_recursive

\* C19: every successful read_node and read_depth returns a node whose hash
\* is the requested hash, whatever the depth, the recursive flag and the
\* cache; the same request repeated on the resulting cache returns the same
\* hash, and from_commit returns the commit with its root directory.
C19_RootHashIsRequested ==
    /\ \A q \in ReadNodeRequests \cup ReadDepthRequests :
          LET a == Answer(nodeDBs, dirHashes, q, cache)
          IN (a.kind = "ok" /\ IsSome(a.val)) =>
                /\ Unwrap(a.val).hash = q.hash
                /\ LET b == Answer(nodeDBs, dirHashes, q, a.cache)
                   IN /\ b.kind = "ok" /\ IsSome(b.val)
                      /\ Unwrap(b.val).hash = q.hash
    /\ LET a == from_commit(nodeDBs, dirHashes, Commit0, cache)
       IN /\ a.kind = "ok"
          /\ Unwrap(a.val).hash = Commit0

\* The commit and its root directory were loaded, at different depths.
C19_Witness ==
    /\ loads >= 2
    /\ \E i, j \in 1..Len(cache.items) :
          /\ cache.items[i].hash = Commit0 /\ cache.items[i].is_recursive
          /\ cache.items[j].hash = RootDir0.hash /\ ~cache.items[j].is_recursive

NodeOf0(h) == CHOOSE t \in AllNodes(Tree0) : t.hash = h

\* The entries of c that are no longer in c2, other than the one of hash h.
Evicted(c, c2, h) ==
    {x \in Range(c.items) : x.hash # h /\ ~IsSome(LruPeek(c2, x.hash))}

\* C20: a put into the cache evicts at most one entry and leaves every
\* other entry as it was; when the evicted entry is a non-leaf, the entries
\* of its children are unchanged and still answer a direct request.
C20_EvictionKeepsChildren ==
    \A t \in AllNodes(Tree0), r \in BOOLEAN :
        LET e == from_tree_node(t, 0, r)
            c2 == LruPut(cache, e)
            gone == Evicted(cache, c2, e.hash)
        IN /\ Cardinality(gone) <= 1
           /\ \A x \in Range(cache.items) \ gone :
                 x.hash # e.hash => LruPeek(c2, x.hash) = Some(x)
           /\ \A x \in gone :
                 ~is_leaf(x.node) =>
                    \A k \in Range(NodeOf0(x.hash).children) :
                        (k.hash # e.hash /\ IsSome(LruPeek(cache, k.hash))) =>
                            /\ LruPeek(c2, k.hash) = LruPeek(cache, k.hash)
                            /\ LET a == read_node(nodeDBs, k.hash, FALSE, c2)
                               IN /\ a.kind = "ok" /\ IsSome(a.val)
                                  /\ Unwrap(a.val).hash = k.hash

\* The cache is full, its least recently used entry is a non-leaf, and the
\* entry of one of that node's children is in the cache: the next put of
\* another node evicts the parent.
C20_Witness ==
    /\ cache.cap = CacheCap
    /\ Len(cache.items) = cache.cap
    /\ LET x == cache.items[Len(cache.items)]
       IN /\ ~is_leaf(x.node)
          /\ \E k \in Range(NodeOf0(x.hash).children) : IsSome(LruPeek(cache, k.hash))

\* C29: after any sequence of read_node and read_depth calls (read_depth
\* with depth -1 included) every entry of the NodeCache has a loaded_depth
\* of at least -1, and its loaded_depth is -1 exactly when it is recursive.
C29_DepthMatchesRecursive ==
    \A i \in 1..Len(cache.items) :
        LET e == cache.items[i]
        IN /\ e.loaded_depth >= -1
           /\ (e.loaded_depth = -1) <=> e.is_recursive

\* C31: after any sequence of loads, a direct recursive read_node of a
\* cached leaf included, every entry of a leaf node (File or FileChunk) has
\* loaded_depth 0 and no child hashes.
C31_LeafEntriesDepthZero ==
    \A i \in 1..Len(cache.items) :
        LET e == cache.items[i]
        IN is_leaf(e.node) => e.loaded_depth = 0 /\ e.child_hashes = <<>>

\* C32: whatever earlier loads put in the cache, read_file never indexes
\* outside the VNode list it loaded: the directory it got from
\* read_depth(dir, 0) has a VNode at the bucket of the path.
C32_BucketInVNodeList ==
    \A p \in DOMAIN Files0 :
        read_file(nodeDBs, dirHashes[Commit0], p, cache).kind # "panic"

\* The non-leaf nodes of the tree t have the children their node DBs record.
FullyMaterialized(t) ==
    \A x \in AllNodes(t) :
        ~is_leaf(x.node) => ChildHashes(x) = ChildHashes(NodeOf0(x.hash))

\* C30: an entry marked is_recursive lists exactly the children its node DB
\* records, and the tree a recursive read_node returns when it leaves such an
\* entry behind has, at every non-leaf node, the children of the node DB.
C30_RecursiveEntriesComplete ==
    /\ \A i \in 1..Len(cache.items) :
          LET e == cache.items[i]
          IN (e.is_recursive /\ ~is_leaf(e.node)) =>
                e.child_hashes = ChildHashes(NodeOf0(e.hash))
    /\ cache.cap = NODE_CACHE_SIZE =>
          \A t \in NonLeaves0 :
              LET a == read_node(nodeDBs, t.hash, TRUE, cache)
                  e == LruPeek(a.cache, t.hash)
              IN (a.kind = "ok" /\ IsSome(a.val) /\ IsSome(e) /\ Unwrap(e).is_recursive)
                    => FullyMaterialized(Unwrap(a.val))

----------------------------------------------------------------------------
(* A partially cloned tree: the node DB of one non-leaf node below the      *)
(* commit is not on disk.                                                   *)

Without(db, h) == [k \in DOMAIN db \ {DBKey(h)} |-> db[k]]

InitPartial ==
    /\ \E t \in NonLeaves0 \ {Tree0} : nodeDBs = Without(DBsOfTree(Tree0), t.hash)
    /\ dirHashes = (Commit0 :> DirHashesOf(Files0))
    /\ commits = <<CommitRecord(Files0, InitMsg, <<>>)>>
    /\ branchRef = Some(Commit0)
    /\ refTmp = None
    /\ lockHolder = {}
    /\ wr = [w \in Writers |-> WriterIdle]
    /\ rd = ReaderIdle
    /\ InitStoreIdle("local", Files0)
    /\ cache = LruNew(NODE_CACHE_SIZE)
    /\ loads = 0
    /\ InitExtIdle

SpecPartial == InitPartial /\ [][NextCache]_vars

\* The load r of the node t succeeded with every child the node DB of t
\* records, the children whose node DB is missing without children.
ToleratesMissing(db, t, r) ==
    /\ r.kind = "ok"
    /\ IsSome(r.val)
    /\ ChildHashes(Unwrap(r.val)) = ChildHashes(t)
    /\ \A i \in 1..Len(Unwrap(r.val).children) :
          LET x == Unwrap(r.val).children[i]
          IN (~is_leaf(x.node) /\ ~MerkleNodeDB_exists(db, x.hash)) => x.children = <<>>

\* The nodes that have their node DB and a non-leaf child that has none.
ParentsOfMissing(db) ==
    {t \in NonLeaves0 :
        /\ MerkleNodeDB_exists(db, t.hash)
        /\ \E i \in 1..Len(t.children) :
              ~is_leaf(t.children[i].node) /\ ~MerkleNodeDB_exists(db, t.children[i].hash)}

\* C33: a load of a node that is not in the cache tolerates a missing node
\* DB of a non-leaf child: it succeeds, the children list has every child
\* of the node's DB and the child without DB has no children; for
\* depth-limited loads and for recursive loads.
C33_MissingChildDBTolerated ==
    \A t \in ParentsOfMissing(nodeDBs) :
        ~IsSome(LruPeek(cache, t.hash)) =>
            /\ \A d \in 0..MaxDepth :
                  ToleratesMissing(nodeDBs, t, read_depth(nodeDBs, t.hash, d, cache))
            /\ ToleratesMissing(nodeDBs, t, read_node(nodeDBs, t.hash, TRUE, cache))

\* The same for the depth-limited loads alone.
C33_DepthLoadsTolerate ==
    \A t \in ParentsOfMissing(nodeDBs) :
        ~IsSome(LruPeek(cache, t.hash)) =>
            \A d \in 0..MaxDepth :
                ToleratesMissing(nodeDBs, t, read_depth(nodeDBs, t.hash, d, cache))

----------------------------------------------------------------------------
(* The commit writer, section 4.6 of the design.  A commit runs under the  *)
(* writer lock .hidden/lock and goes through: 1 blobs to the VersionStore, *)
(* 2-3 tree build, 4 node DBs and the dir_hashes index, 5 the CommitNode,  *)
(* 6 the branch ref, written to a temporary file and renamed into place.   *)
(* Any step before the rename can fail.                                    *)

InitFiles == (PathA :> BytesX)

\* The working trees a commit can record.
ChangeSets ==
    { (PathA :> BytesX) @@ (PathB :> BytesX),     \* b added with the bytes of a
      (PathA :> BytesY) @@ (PathC :> BytesX) }    \* a modified, s/c added

PathSeq == <<PathA, PathB, PathC>>
FilesSeq(files) == SelectSeq(PathSeq, LAMBDA p : p \in DOMAIN files)

RECURSIVE PostOrder(_)
RECURSIVE PostOrderAll(_, _)
PostOrderAll(ts, i) ==
    IF i > Len(ts) THEN <<>> ELSE PostOrder(ts[i]) \o PostOrderAll(ts, i + 1)
\* The non-leaf nodes of a tree, children before parents.
PostOrder(t) ==
    IF is_leaf(t.node) THEN <<>> ELSE PostOrderAll(t.children, 1) \o <<t>>

\* The commit a writer is making: on top of the ref value it read.
NewCommit(w) == CommitRecord(wr[w].files, <<w, wr[w].n>>, wr[w].base)

\* The node DBs the commit writes in step 4: every Dir and VNode.
NewNodeDBs(w) == PostOrder(TreeOf(NewCommit(w)).children[1])

\* A bug: the lock is taken without a look at its holder.
CanLock_Always(holders, w) == TRUE

\* The lock file is free.
CanLock(holders, w) == holders = {}

\* A bug: the ref is advanced before the node DBs are written.
StepAfter_RefFirst(pc) ==
    CASE pc = "blobs" -> "ref_begin"
      [] pc = "ref_begin" -> "ref_end"
      [] pc = "ref_end" -> "ref_rename"
      [] pc = "ref_rename" -> "nodes"
      [] pc = "nodes" -> "dir_hashes"
      [] pc = "dir_hashes" -> "commit_node"
      [] pc = "commit_node" -> "done"

\* A bug: the ref is advanced before the CommitNode is persisted.
StepAfter_RefBeforeCommitNode(pc) ==
    CASE pc = "blobs" -> "nodes"
      [] pc = "nodes" -> "dir_hashes"
      [] pc = "dir_hashes" -> "ref_begin"
      [] pc = "ref_begin" -> "ref_end"
      [] pc = "ref_end" -> "ref_rename"
      [] pc = "ref_rename" -> "commit_node"
      [] pc = "commit_node" -> "done"

\* The order of the writer's steps.
StepAfter(pc) ==
    CASE pc = "blobs" -> "nodes"
      [] pc = "nodes" -> "dir_hashes"
      [] pc = "dir_hashes" -> "commit_node"
      [] pc = "commit_node" -> "ref_begin"
      [] pc = "ref_begin" -> "ref_end"
      [] pc = "ref_end" -> "ref_rename"
      [] pc = "ref_rename" -> "done"

\* A bug: the node DB of an already stored hash is written again.
MerkleNodeDB_write_Overwrite(db, t) ==
    [k \in DOMAIN db \cup {DBKey(t.hash)} |->
        IF k = DBKey(t.hash) THEN NodeDBOf(t) ELSE db[k]]

\* A node DB is written once, keyed by its hash; an existing one is kept.
MerkleNodeDB_write(db, t) ==
    IF MerkleNodeDB_exists(db, t.hash) THEN db
    ELSE db @@ (DBKey(t.hash) :> NodeDBOf(t))

\* A bug: the ref file is rewritten in place.
WriteRefFile_InPlace(refs, content) == [refs EXCEPT !.ref = content, !.tmp = content]

\* The ref's new content goes to the temporary file.
WriteRefFile(refs, content) == [refs EXCEPT !.tmp = content]
\* rename-into-place
RenameRefFile(refs) == [ref |-> refs.tmp, tmp |-> None]

Attempts == wr["w1"].n + wr["w2"].n

\* Repo::commit is called: the staged changes are fixed.
RequestCommit(w) ==
    /\ wr[w].pc = "idle"
    /\ Attempts < MaxCommits
    /\ \E files \in ChangeSets :
          wr' = [wr EXCEPT ![w] = [pc |-> "waiting", base |-> None, files |-> files,
                                   n |-> Attempts + 1, i |-> 1]]
    /\ UNCHANGED <<nodeDBs, dirHashes, commits, versions, branchRef, refTmp,
                   lockHolder, rd, cacheVars, extVars, storeVars>>

\* The writer takes .hidden/lock and reads the branch ref.
Lock(w) ==
    /\ wr[w].pc = "waiting"
    /\ CanLock(lockHolder, w)
    /\ lockHolder' = lockHolder \cup {w}
    /\ wr' = [wr EXCEPT ![w].pc = "blobs", ![w].base = branchRef]
    /\ UNCHANGED <<nodeDBs, dirHashes, commits, versions, branchRef, refTmp,
                   rd, cacheVars, extVars, storeVars>>

Advance(w, n) ==
    IF wr[w].i < n THEN [wr EXCEPT ![w].i = @ + 1]
    ELSE [wr EXCEPT ![w].i = 1, ![w].pc = StepAfter(wr[w].pc)]

\* Step 1: the next file's bytes go to the VersionStore under their hash.
PutBlob(w) ==
    /\ wr[w].pc = "blobs"
    /\ LET paths == FilesSeq(wr[w].files)
           data == wr[w].files[paths[wr[w].i]]
       IN /\ versions' = VersionStore_put(versions, FileHash(data), data)
          /\ wr' = Advance(w, Len(paths))
    /\ UNCHANGED <<nodeDBs, dirHashes, commits, branchRef, refTmp, lockHolder,
                   rd, cacheVars, extVars, storeVars>>

\* Step 4: the next new node DB is written.
WriteNodeDB(w) ==
    /\ wr[w].pc = "nodes"
    /\ LET nodes == NewNodeDBs(w)
       IN /\ nodeDBs' = MerkleNodeDB_write(nodeDBs, nodes[wr[w].i])
          /\ wr' = Advance(w, Len(nodes))
    /\ UNCHANGED <<dirHashes, commits, versions, branchRef, refTmp, lockHolder,
                   rd, cacheVars, extVars, storeVars>>

\* Step 4: the dir_hashes index of the commit is written.
WriteDirHashes(w) ==
    /\ wr[w].pc = "dir_hashes"
    /\ dirHashes' = [h \in DOMAIN dirHashes \cup {NewCommit(w).hash} |->
                        IF h = NewCommit(w).hash THEN DirHashesOf(wr[w].files)
                        ELSE dirHashes[h]]
    /\ wr' = Advance(w, 1)
    /\ UNCHANGED <<nodeDBs, commits, versions, branchRef, refTmp, lockHolder,
                   rd, cacheVars, extVars, storeVars>>

\* Step 5: the CommitNode is persisted.
WriteCommitNode(w) ==
    /\ wr[w].pc = "commit_node"
    /\ nodeDBs' = MerkleNodeDB_write(nodeDBs, TreeOf(NewCommit(w)))
    /\ wr' = Advance(w, 1)
    /\ UNCHANGED <<dirHashes, commits, versions, branchRef, refTmp, lockHolder,
                   rd, cacheVars, extVars, storeVars>>

\* Step 6: the file that receives the new ref value is created, empty.
RefWriteBegin(w) ==
    /\ wr[w].pc = "ref_begin"
    /\ LET refs == WriteRefFile([ref |-> branchRef, tmp |-> refTmp], None)
       IN branchRef' = refs.ref /\ refTmp' = refs.tmp
    /\ wr' = Advance(w, 1)
    /\ UNCHANGED <<nodeDBs, dirHashes, commits, versions, lockHolder,
                   rd, cacheVars, extVars, storeVars>>

\* Step 6: the commit hash is written to that file.
RefWriteEnd(w) ==
    /\ wr[w].pc = "ref_end"
    /\ LET refs == WriteRefFile([ref |-> branchRef, tmp |-> refTmp],
                                Some(NewCommit(w).hash))
       IN branchRef' = refs.ref /\ refTmp' = refs.tmp
    /\ wr' = Advance(w, 1)
    /\ UNCHANGED <<nodeDBs, dirHashes, commits, versions, lockHolder,
                   rd, cacheVars, extVars, storeVars>>

\* Step 6: the temporary file is renamed into place; the ref is advanced.
RefRename(w) ==
    /\ wr[w].pc = "ref_rename"
    /\ LET refs == RenameRefFile([ref |-> branchRef, tmp |-> refTmp])
       IN branchRef' = refs.ref /\ refTmp' = refs.tmp
    /\ commits' = Append(commits, NewCommit(w))
    /\ wr' = Advance(w, 1)
    /\ UNCHANGED <<nodeDBs, dirHashes, versions, lockHolder,
                   rd, cacheVars, extVars, storeVars>>

\* A step of the commit fails (I/O error): the commit is abandoned.
Fail(w) ==
    /\ wr[w].pc \in {"blobs", "nodes", "dir_hashes", "commit_node",
                     "ref_begin", "ref_end", "ref_rename"}
    /\ wr' = [wr EXCEPT ![w].pc = "failed", ![w].i = 1]
    /\ UNCHANGED <<nodeDBs, dirHashes, commits, versions, branchRef, refTmp,
                   lockHolder, rd, cacheVars, extVars, storeVars>>

\* The commit returns, successfully or not: the lock is released.
Unlock(w) ==
    /\ wr[w].pc \in {"done", "failed"}
    /\ lockHolder' = lockHolder \ {w}
    /\ wr' = [wr EXCEPT ![w] = [WriterIdle EXCEPT !.n = wr[w].n]]
    /\ UNCHANGED <<nodeDBs, dirHashes, commits, versions, branchRef, refTmp,
                   rd, cacheVars, extVars, storeVars>>

----------------------------------------------------------------------------
(* A reader: it resolves the branch ref, then loads the tree of the commit *)
(* it found, one node DB at a time, without taking the lock.               *)

NonLeafHashes(headers) ==
    LET nl == SelectSeq(headers, LAMBDA x : ~is_leaf(x.node))
    IN [i \in 1..Len(nl) |-> nl[i].hash]

RECURSIVE Assemble(_, _)
\* The tree below header x, out of the node DBs the reader loaded.
Assemble(got, x) ==
    IF is_leaf(x.node) THEN x
    ELSE LET ch == got[x.hash].children
         IN MerkleTreeNode(x.hash, x.node, x.parent_id,
                           [i \in 1..Len(ch) |-> Assemble(got, ch[i])])

ReaderTree == Assemble(rd.got, rd.got[Unwrap(rd.target)].self)

ReaderResolve ==
    /\ rd.pc = "idle"
    /\ rd' = IF IsSome(branchRef)
             THEN [pc |-> "loading", target |-> branchRef, todo |-> branchRef,
                   got |-> <<>>]
             ELSE [ReaderIdle EXCEPT !.pc = "error"]
    /\ UNCHANGED <<nodeDBs, dirHashes, commits, versions, branchRef, refTmp,
                   lockHolder, wr, cacheVars, extVars, storeVars>>

ReaderLoad ==
    /\ rd.pc = "loading"
    /\ LET h == Head(rd.todo)
       IN IF ~MerkleNodeDB_exists(nodeDBs, h)
          THEN rd' = [rd EXCEPT !.pc = "error"]
          ELSE LET todo == Tail(rd.todo) \o NonLeafHashes(MerkleNodeDB_map(nodeDBs, h))
               IN rd' = [pc |-> IF todo = <<>> THEN "done" ELSE "loading",
                         target |-> rd.target,
                         todo |-> todo,
                         got |-> rd.got @@ (h :> [self |-> from_hash(nodeDBs, h),
                                                  children |-> MerkleNodeDB_map(nodeDBs, h)])]
    /\ UNCHANGED <<nodeDBs, dirHashes, commits, versions, branchRef, refTmp,
                   lockHolder, wr, cacheVars, extVars, storeVars>>

ReaderReturn ==
    /\ rd.pc \in {"done", "error"}
    /\ rd' = ReaderIdle
    /\ UNCHANGED <<nodeDBs, dirHashes, commits, versions, branchRef, refTmp,
                   lockHolder, wr, cacheVars, extVars, storeVars>>

InitCommit ==
    /\ InitRepo(InitFiles)
    /\ InitStoreIdle("local", InitFiles)
    /\ cache = LruNew(NODE_CACHE_SIZE)
    /\ loads = 0
    /\ InitExtIdle

Writer(w) ==
    \/ RequestCommit(w) \/ Lock(w) \/ PutBlob(w) \/ WriteNodeDB(w)
    \/ WriteDirHashes(w) \/ WriteCommitNode(w) \/ RefWriteBegin(w)
    \/ RefWriteEnd(w) \/ RefRename(w) \/ Fail(w) \/ Unlock(w)

Reader == ReaderResolve \/ ReaderLoad \/ ReaderReturn

NextCommit == (\E w \in Writers : Writer(w)) \/ Reader

SpecCommit == InitCommit /\ [][NextCommit]_vars

----------------------------------------------------------------------------
(* Properties of the commit writer *)

Retrievable(t) ==
    IF is_leaf(t.node) THEN VersionStore_exists(versions, t.hash)
    ELSE MerkleNodeDB_exists(nodeDBs, t.hash)

Advancing(w) == wr[w].pc \in {"blobs", "nodes", "dir_hashes", "commit_node",
                             "ref_begin", "ref_end", "ref_rename"}

\* C3: node DBs and dir_hashes are written before the ref is advanced: in
\* every state the branch ref names a commit of the history, every node of
\* every commit of the history is retrievable (node DB for a non-leaf, blob
\* for a leaf), its dir_hashes index exists and from_commit loads it.
C3_ReachableRetrievable ==
    /\ IsSome(branchRef)
    /\ \E i \in 1..Len(commits) : commits[i].hash = Unwrap(branchRef)
    /\ \A i \in 1..Len(commits) :
          /\ \A t \in AllNodes(TreeOf(commits[i])) : Retrievable(t)
          /\ commits[i].hash \in DOMAIN dirHashes
          /\ from_commit(nodeDBs, dirHashes, commits[i].hash, cache).kind = "ok"

\* A commit was made by a writer: the ref names it and its nodes were written.
C3_Witness ==
    /\ Len(commits) = 2
    /\ branchRef = Some(commits[2].hash)
    /\ PathC \in DOMAIN commits[2].files

RECURSIVE ReachDB(_, _)
ReachDB(db, h) ==
    IF ~MerkleNodeDB_exists(db, h) THEN {}
    ELSE {h} \cup UNION {ReachDB(db, x.hash) : x \in Range(MerkleNodeDB_map(db, h))}

ReachableFromRef == UNION {ReachDB(nodeDBs, commits[i].hash) : i \in 1..Len(commits)}

\* C5: a commit that fails before the ref advance leaves the ref at the
\* value it had when the commit started, and its CommitNode (with whatever
\* node DBs only it wrote) is not reachable from the ref.
C5_FailureLeavesRef ==
    /\ [][\A w \in Writers :
            (wr[w].pc # "failed" /\ wr'[w].pc = "failed") =>
                (branchRef' = wr[w].base /\ branchRef' = branchRef)]_vars
    /\ [](\A w \in Writers :
            wr[w].pc = "failed" =>
                /\ branchRef = wr[w].base
                /\ NewCommit(w).hash \notin ReachableFromRef
                /\ \A t \in Range(NewNodeDBs(w)) :
                      t.hash \in ReachableFromRef =>
                          \E i \in 1..Len(commits) :
                              t.hash \in {x.hash : x \in AllNodes(TreeOf(commits[i]))})

\* A commit failed after it wrote its CommitNode.
C5_Witness ==
    \E w \in Writers :
        /\ wr[w].pc = "failed"
        /\ MerkleNodeDB_exists(nodeDBs, NewCommit(w).hash)

\* C6: the branch ref always holds the hash of a persisted commit, and a
\* step leaves it at its previous value or sets it to the hash of the commit
\* being made, also when the writer fails in the middle of the ref advance.
C6_RefPreviousOrNew ==
    /\ [](/\ IsSome(branchRef)
          /\ MerkleNodeDB_exists(nodeDBs, Unwrap(branchRef))
          /\ node_type(from_hash(nodeDBs, Unwrap(branchRef)).node) = "Commit")
    /\ [][\/ branchRef' = branchRef
          \/ \E w \in Writers : /\ Advancing(w)
                                /\ branchRef' = Some(NewCommit(w).hash)]_vars

\* A writer failed between the write of the temporary file and the rename.
C6_Witness ==
    \E w \in Writers :
        /\ wr[w].pc = "failed"
        /\ refTmp = Some(NewCommit(w).hash)
        /\ branchRef # refTmp

\* C7: at most one writer holds the lock; the ref is advanced only by the
\* holder of the lock, and the commit that advances it has the replaced ref
\* value as its parent (a second commit builds on what the first left).
C7_SingleWriter ==
    /\ [](Cardinality(lockHolder) <= 1)
    /\ [][branchRef' # branchRef =>
            \E w \in lockHolder :
                /\ wr[w].pc = "ref_rename"
                /\ branchRef' = Some(NewCommit(w).hash)
                /\ wr[w].base = branchRef
                /\ NewCommit(w).parents = branchRef]_vars

\* Two writers committed one after the other: the commit of the second
\* has the commit of the first as its parent.
C7_Witness ==
    /\ Len(commits) = 3
    /\ commits[2].msg[1] # commits[3].msg[1]
    /\ commits[3].msg[2] = commits[2].msg[2] + 1
    /\ commits[3].parents = <<commits[2].hash>>
    /\ branchRef = Some(commits[3].hash)

FileNodeAt(c, p) == Unwrap(get_by_path(TreeOf(c), p))

\* C8: the same bytes committed twice (two paths or two commits) give
\* FileNodes with the same hash, which is the key of one blob written once;
\* a put of a hash that is already stored leaves the store unchanged.
C8_OneBlobPerContent ==
    /\ [](/\ \A h \in DOMAIN versions :
                versions[h].writes = 1 /\ FileHash(versions[h].data) = h
          /\ LET nodes == UNION {{<<commits[i].files[p], FileNodeAt(commits[i], p).hash>> :
                                     p \in DOMAIN commits[i].files} : i \in 1..Len(commits)}
             IN \A x, y \in nodes :
                   /\ x[1] = y[1] => x[2] = y[2]
                   /\ VersionStore_get(versions, x[2]) = [kind |-> "ok", val |-> Some(x[1])])
    /\ [][\A w \in Writers :
            (wr[w].pc = "blobs" /\ wr'[w] # wr[w] /\ wr'[w].pc # "failed"
             /\ VersionStore_exists(versions,
                    FileHash(wr[w].files[FilesSeq(wr[w].files)[wr[w].i]])))
                => versions' = versions]_vars

\* A commit holds a and b with the same bytes.
C8_Witness ==
    \E i \in 1..Len(commits) :
        /\ {PathA, PathB} \subseteq DOMAIN commits[i].files
        /\ commits[i].files[PathA] = commits[i].files[PathB]
        /\ FileNodeAt(commits[i], PathA).node.name # FileNodeAt(commits[i], PathB).node.name

\* Repo::read_file(commit, path): the FileNode through dir_hashes, then its blob.
BytesOfFound(r) ==
    IF r.kind = "ok" /\ IsSome(r.val)
    THEN VersionStore_get(versions, Unwrap(r.val).hash)
    ELSE NotFound

Repo_read_file(commit, path) ==
    BytesOfFound(read_file(nodeDBs, dirHashes[commit], path, cache))

\* C10: for every commit of the branch and every file committed in it with
\* bytes B, read_file(commit, path) returns exactly B, whatever commits
\* were made later.
C10_ReadFileReturnsBytes ==
    \A i \in 1..Len(commits) :
        \A p \in DOMAIN commits[i].files :
            Repo_read_file(commits[i].hash, p)
                = [kind |-> "ok", val |-> Some(commits[i].files[p])]

\* CommitMerkleTree::dir_hashes: the whole index of the commit, read from
\* its DB; an error when the DB cannot be opened.
dir_hashes(dh, commit) ==
    IF commit \in DOMAIN dh THEN [kind |-> "ok", val |-> Some(dh[commit])]
    ELSE [kind |-> "err", val |-> None]

\* The paths of at most two components.
PathCandidates ==
    {<<>>} \cup {<<AllNames[i]>> : i \in 1..Len(AllNames)}
           \cup {<<AllNames[i], AllNames[j]>> : i, j \in 1..Len(AllNames)}

\* The directory paths of a tree, found by walking it.
DirPathsOf(t) ==
    {p \in PathCandidates :
        /\ IsSome(get_by_path(t, p))
        /\ node_type(Unwrap(get_by_path(t, p)).node) = "Dir"}

\* C11: for every commit of the branch, the dir_hashes index maps every
\* directory path reachable in the commit's tree (the root being the empty
\* path) to the hash of the DirNode at that path, and has no other key.
C11_DirHashesIndex ==
    \A i \in 1..Len(commits) :
        LET t == TreeOf(commits[i])
            r == dir_hashes(dirHashes, commits[i].hash)
        IN /\ r.kind = "ok"
           /\ <<>> \in DOMAIN Unwrap(r.val)
           /\ DOMAIN Unwrap(r.val) = DirPathsOf(t)
           /\ \A p \in DirPathsOf(t) :
                 Unwrap(r.val)[p] = Unwrap(get_by_path(t, p)).hash

\* A commit with a sub-directory was made on top of the initial one.
C11_Witness ==
    /\ Len(commits) >= 2
    /\ <<"s">> \in DirPathsOf(TreeOf(commits[Len(commits)]))
    /\ <<"s">> \in DOMAIN dirHashes[commits[Len(commits)].hash]

\* The paths whose bytes differ between two commits over the same paths.
ChangedPaths(old, new) == {p \in DOMAIN old : new[p] # old[p]}

VNodeHashes(t, d) ==
    LET dir == Unwrap(get_by_path(t, d))
    IN [b \in 1..Len(dir.children) |-> dir.children[b].hash]

\* C12: when a commit changes the content of exactly one file f of
\* directory d relative to its parent commit, exactly one VNode of d, the
\* one of f's bucket, has a new hash; the other VNodes of d and every
\* directory that is neither d nor an ancestor of d keep their hashes.
C12_StructuralSharing ==
    \A i \in 1..(Len(commits) - 1) :
        LET old == commits[i]
            new == commits[i + 1]
        IN (/\ DOMAIN old.files = DOMAIN new.files
            /\ Cardinality(ChangedPaths(old.files, new.files)) = 1) =>
           LET f == CHOOSE p \in ChangedPaths(old.files, new.files) : TRUE
               d == SubSeq(f, 1, Len(f) - 1)
               vo == VNodeHashes(TreeOf(old), d)
               vn == VNodeHashes(TreeOf(new), d)
               bucket == hash_buffer_128bit(f) % Len(vo)
           IN /\ Len(vn) = Len(vo)
              /\ {b \in 1..Len(vo) : vn[b] # vo[b]} = {bucket + 1}
              /\ \A q \in DirsOf(old.files) :
                    (q # d /\ ~IsUnder(q, d)) =>
                        Unwrap(get_by_path(TreeOf(new), q)).hash
                            = Unwrap(get_by_path(TreeOf(old), q)).hash

\* A file of a root with two VNodes and a sub-directory was modified.
C12_Witness ==
    /\ Len(commits) >= 2
    /\ LET old == commits[Len(commits) - 1]
           new == commits[Len(commits)]
       IN /\ DOMAIN old.files = DOMAIN new.files
          /\ ChangedPaths(old.files, new.files) = {PathA}
          /\ Len(VNodeHashes(TreeOf(old), <<>>)) = 2
          /\ <<"s">> \in DirsOf(old.files)

\* C13: the node DB stored under a hash holds the node of that hash and is
\* never modified or removed by a later step; a commit that produces a
\* hash that is already stored performs no write for it.
C13_NodesImmutable ==
    /\ [](\A h \in DOMAIN nodeDBs : DBKey(nodeDBs[h].self.hash) = h)
    /\ [][/\ \A h \in DOMAIN nodeDBs :
                h \in DOMAIN nodeDBs' /\ nodeDBs'[h] = nodeDBs[h]
          /\ \A w \in Writers :
                (/\ wr[w].pc = "nodes"
                 /\ wr'[w] # wr[w]
                 /\ wr'[w].pc # "failed"
                 /\ MerkleNodeDB_exists(nodeDBs, NewNodeDBs(w)[wr[w].i].hash))
                    => nodeDBs' = nodeDBs]_vars

\* Two commits of the branch have the same root directory: its node DB is
\* the one the first of them wrote.
C13_Witness ==
    /\ Len(commits) = 3
    /\ TreeOf(commits[2]).children[1].hash = TreeOf(commits[3]).children[1].hash
    /\ from_hash(nodeDBs, TreeOf(commits[3]).children[1].hash).parent_id
           = Some(commits[2].hash)

----------------------------------------------------------------------------
(* Commits that modify one file.  The repository starts with any set of   *)
(* files; Repo::commit, run to completion by one writer, records a tree   *)
(* in which the bytes of one file differ from the parent commit.          *)

BuildPaths == {PathA, PathB, <<"c">>, PathC, <<"s", "a">>}
BuildContents == {BytesX, BytesY}
FileSets == UNION {[S -> BuildContents] : S \in (SUBSET BuildPaths) \ {{}}}

RECURSIVE WriteNodeDBs(_, _, _)
\* Step 4 and 5 of the commit: the node DBs of the tree, children first.
WriteNodeDBs(db, nodes, i) ==
    IF i > Len(nodes) THEN db
    ELSE WriteNodeDBs(MerkleNodeDB_write(db, nodes[i]), nodes, i + 1)

InitBuild ==
    /\ \E files \in FileSets : InitRepo(files) /\ InitStoreIdle("local", files)
    /\ cache = LruNew(NODE_CACHE_SIZE)
    /\ loads = 0
    /\ InitExtIdle

CommitFileChange(p, b) ==
    /\ Len(commits) <= MaxCommits
    /\ LET last == commits[Len(commits)]
       IN /\ p \in DOMAIN last.files
          /\ b # last.files[p]
          /\ LET files == [last.files EXCEPT ![p] = b]
                 c == CommitRecord(files, <<"w1", Len(commits)>>, branchRef)
             IN /\ versions' = VersionStore_put(versions, FileHash(b), b)
                /\ nodeDBs' = WriteNodeDBs(nodeDBs, PostOrder(TreeOf(c)), 1)
                /\ dirHashes' = [h \in DOMAIN dirHashes \cup {c.hash} |->
                                    IF h = c.hash THEN DirHashesOf(files)
                                    ELSE dirHashes[h]]
                /\ commits' = Append(commits, c)
                /\ branchRef' = Some(c.hash)
    /\ UNCHANGED <<refTmp, lockHolder, wr, rd, cacheVars, extVars, storeVars>>

NextBuild == \E p \in BuildPaths, b \in BuildContents : CommitFileChange(p, b)

SpecBuild == InitBuild /\ [][NextBuild]_vars

----------------------------------------------------------------------------
(* VersionStore puts.  On the local back-end a put uploads the source to a *)
(* temporary key chunk by chunk and publishes it under the hash when the   *)
(* upload is complete; a failure or a cancel discards the temporary key.   *)
(* The S3 back-end of storage/s3.rs is not implemented: each of its        *)
(* operations returns an error and touches nothing.                        *)

StoreErr == [kind |-> "err", val |-> None]
StoreOk(v) == [kind |-> "ok", val |-> Some(v)]

\* A bug: the put leaves the part it uploaded under the hash, then fails.
S3_save_LeavesPart(store, h, data) ==
    [result |-> StoreErr,
     store |-> IF h \in DOMAIN store THEN store
               ELSE store @@ (h :> [data |-> SubSeq(data, 1, Len(data) - 1),
                                    writes |-> 1])]

\* S3VersionStore::save_from_path / save_from_reader / save_from_bytes
S3_save(store, h, data) == [result |-> StoreErr, store |-> store]
\* S3VersionStore::exists
S3_exists(store, h) == StoreErr
\* S3VersionStore::get_to_bytes
S3_get_to_bytes(store, h) == StoreErr

\* VersionStore::exists and VersionStore::get of the repository's back-end.
exists(type, store, h) ==
    IF type = "s3" THEN S3_exists(store, h)
    ELSE StoreOk(VersionStore_exists(store, h))

get(type, store, h) ==
    IF type = "s3" THEN S3_get_to_bytes(store, h)
    ELSE VersionStore_get(store, h)

Blobs == {BytesX, BytesY, BytesZ}

\* The upload's next chunk goes to the temporary key.
put_chunk(stg, src) == Append(stg, src[Len(stg) + 1])
\* The complete temporary key is published under the hash.
put_publish(store, h, stg) == VersionStore_put(store, h, stg)
\* A failed or cancelled upload: the temporary key is discarded.
put_abort(store, h, stg) == store

PutStart(u) ==
    /\ storageType = "local"
    /\ putPc[u].pc = "idle"
    /\ \E data \in Blobs :
          putPc' = [putPc EXCEPT ![u] =
                       [pc |-> IF VersionStore_exists(versions, FileHash(data))
                               THEN "done" ELSE "uploading",
                        hash |-> Some(FileHash(data)), src |-> data]]
    /\ UNCHANGED <<staging, versions, storageType, nodeDBs, dirHashes, commits,
                   branchRef, refTmp, lockHolder, wr, rd, cacheVars, extVars>>

PutChunk(u) ==
    /\ putPc[u].pc = "uploading"
    /\ Len(staging[u]) < Len(putPc[u].src)
    /\ staging' = [staging EXCEPT ![u] = put_chunk(@, putPc[u].src)]
    /\ UNCHANGED <<putPc, versions, storageType, nodeDBs, dirHashes, commits,
                   branchRef, refTmp, lockHolder, wr, rd, cacheVars, extVars>>

PutPublish(u) ==
    /\ putPc[u].pc = "uploading"
    /\ Len(staging[u]) = Len(putPc[u].src)
    /\ versions' = put_publish(versions, Unwrap(putPc[u].hash), staging[u])
    /\ staging' = [staging EXCEPT ![u] = <<>>]
    /\ putPc' = [putPc EXCEPT ![u].pc = "done"]
    /\ UNCHANGED <<storageType, nodeDBs, dirHashes, commits,
                   branchRef, refTmp, lockHolder, wr, rd, cacheVars, extVars>>

PutFail(u) ==
    /\ putPc[u].pc = "uploading"
    /\ versions' = put_abort(versions, Unwrap(putPc[u].hash), staging[u])
    /\ staging' = [staging EXCEPT ![u] = <<>>]
    /\ putPc' = [putPc EXCEPT ![u].pc = "failed"]
    /\ UNCHANGED <<storageType, nodeDBs, dirHashes, commits,
                   branchRef, refTmp, lockHolder, wr, rd, cacheVars, extVars>>

\* The upload's cancel token is set.
PutCancel(u) ==
    /\ putPc[u].pc = "uploading"
    /\ versions' = put_abort(versions, Unwrap(putPc[u].hash), staging[u])
    /\ staging' = [staging EXCEPT ![u] = <<>>]
    /\ putPc' = [putPc EXCEPT ![u].pc = "cancelled"]
    /\ UNCHANGED <<storageType, nodeDBs, dirHashes, commits,
                   branchRef, refTmp, lockHolder, wr, rd, cacheVars, extVars>>

\* A put on the S3 back-end, by any of its three entry points.
S3Save(u) ==
    /\ storageType = "s3"
    /\ putPc[u].pc = "idle"
    /\ \E data \in Blobs :
          LET r == S3_save(versions, FileHash(data), data)
          IN /\ versions' = r.store
             /\ putPc' = [putPc EXCEPT ![u] =
                             [pc |-> IF r.result.kind = "ok" THEN "done" ELSE "failed",
                              hash |-> Some(FileHash(data)), src |-> data]]
    /\ UNCHANGED <<staging, storageType, nodeDBs, dirHashes, commits,
                   branchRef, refTmp, lockHolder, wr, rd, cacheVars, extVars>>

\* The put returned to its caller.
PutReturn(u) ==
    /\ putPc[u].pc \in {"done", "failed", "cancelled"}
    /\ putPc' = [putPc EXCEPT ![u] = UploaderIdle]
    /\ UNCHANGED <<staging, versions, storageType, nodeDBs, dirHashes, commits,
                   branchRef, refTmp, lockHolder, wr, rd, cacheVars, extVars>>

InitStore ==
    /\ InitRepo(InitFiles)
    /\ \E type \in {"local", "s3"} : InitStoreIdle(type, InitFiles)
    /\ cache = LruNew(NODE_CACHE_SIZE)
    /\ loads = 0
    /\ InitExtIdle

Put(u) ==
    \/ PutStart(u) \/ PutChunk(u) \/ PutPublish(u) \/ PutFail(u)
    \/ PutCancel(u) \/ S3Save(u) \/ PutReturn(u)

NextStore == \E u \in Uploaders : Put(u)

SpecStore == InitStore /\ [][NextStore]_vars

----------------------------------------------------------------------------
(* Properties of the VersionStore *)

Aborted(u) == putPc[u].pc \in {"failed", "cancelled"}

\* What a reader can see under a hash is nothing or the whole blob.
NoPartialContent ==
    \A h \in {FileHash(b) : b \in Blobs} :
        get(storageType, versions, h).kind = "ok" =>
            FileHash(Unwrap(get(storageType, versions, h).val)) = h

\* The visible store changes only by the publication of a complete upload.
OnlyPublishChangesStore ==
    versions' # versions =>
        \E u \in Uploaders :
            /\ putPc[u].pc = "uploading" /\ putPc'[u].pc = "done"
            /\ staging[u] = putPc[u].src
            /\ ~VersionStore_exists(versions, Unwrap(putPc[u].hash))
            /\ versions' = versions @@ (Unwrap(putPc[u].hash) :> Blob(putPc[u].src))

\* C9, as stated: after a put of a hash failed or was cancelled, exists(hash)
\* is false and get(hash) fails with NotFound unless the hash is stored, and
\* no reader observes partial content.
C9_AbortedPutInvisible ==
    /\ NoPartialContent
    /\ \A u \in Uploaders :
          Aborted(u) =>
              LET h == Unwrap(putPc[u].hash)
              IN /\ exists(storageType, versions, h)
                       = StoreOk(VersionStore_exists(versions, h))
                 /\ ~VersionStore_exists(versions, h) =>
                       get(storageType, versions, h) = NotFound

\* C9, amended: a put that fails or is cancelled leaves the visible store
\* as it was (only the publication of a complete upload changes it, the
\* temporary key is discarded); the hash is then reported as stored only if
\* a completed put stored it: on the local back-end exists is false and get
\* is NotFound, on the S3 back-end put, exists and get all fail; no reader
\* observes partial content.
C9_AbortedPutLeavesStore ==
    /\ [](/\ NoPartialContent
          /\ \A u \in Uploaders :
                Aborted(u) =>
                    LET h == Unwrap(putPc[u].hash)
                    IN /\ staging[u] = <<>>
                       /\ exists(storageType, versions, h) # StoreOk(TRUE)
                             => get(storageType, versions, h).kind # "ok"
                       /\ storageType = "local" =>
                             /\ exists(storageType, versions, h)
                                   = StoreOk(VersionStore_exists(versions, h))
                             /\ ~VersionStore_exists(versions, h) =>
                                   get(storageType, versions, h) = NotFound
                       /\ storageType = "s3" =>
                             /\ exists(storageType, versions, h) = StoreErr
                             /\ get(storageType, versions, h) = StoreErr)
    /\ [][OnlyPublishChangesStore]_vars

\* An upload of BytesY was cancelled after its first chunk (the bytes of
\* BytesX) while nothing is stored under its hash.
C9_Witness ==
    \E u \in Uploaders :
        /\ putPc[u].pc = "cancelled"
        /\ putPc[u].src = BytesY
        /\ ~VersionStore_exists(versions, FileHash(BytesY))
        /\ \E v \in Uploaders \ {u} : staging[v] = <<1>> /\ putPc[v].src = BytesY

----------------------------------------------------------------------------
(* Forks: start_fork and the worker thread it spawns.  The worker appends   *)
(* a record in one or several writes, whatever the file system does with    *)
(* the buffer; between any two steps a reader may call get_fork_status.     *)

nonForkVars == <<repoVars, cacheVars, storeVars, threadVars, cv, registryVars>>

FsOutcomes == {"ok", "create_dir_all fails", "write_status fails"}

BeginWrite(status, ok, err) == [rec |-> status, sent |-> 0, ok |-> ok, err |-> err]

\* A call of start_fork(a, b).  The runs looked at have one worker at a
\* time: the call comes while no other destination is being written.
StartFork(a, b) ==
    /\ Len(startRes) < MaxForks
    /\ a # b
    /\ \A r \in Repos \ {b} : fk[r].pc \in {"none", "end"}
    /\ \E io \in FsOutcomes :
          LET s == start_fork(disk, a, b, io)
          IN /\ disk' = s.disk
             /\ startRes' = Append(startRes, [src |-> a, dst |-> b,
                                              existed |-> disk[b].exists, res |-> s.res])
             /\ fk' = IF s.spawn
                      THEN [fk EXCEPT ![b] = [WorkerNone EXCEPT !.pc = "count", !.src = a]]
                      ELSE fk
             /\ written' = IF s.spawn THEN [written EXCEPT ![b] = <<Counting(0)>>]
                           ELSE written
    /\ UNCHANGED <<shutdown, nonForkVars>>

\* The worker counts the items and writes Counting(count); a failure of
\* that write is logged only.
Count(r) ==
    /\ fk[r].pc = "count"
    /\ LET count == count_items(disk, fk[r].src)
       IN fk' = [fk EXCEPT ![r].total = count, ![r].pc = "write",
                           ![r].w = BeginWrite(Counting(0 + count), "copy", "copy")]
    /\ UNCHANGED <<disk, written, startRes, shutdown, nonForkVars>>

\* write_status fails before a byte is written (create_dir_all or open).
WriteFails(r) ==
    /\ fk[r].pc = "write"
    /\ fk[r].w.sent = 0
    /\ fk' = [fk EXCEPT ![r].pc = fk[r].w.err]
    /\ UNCHANGED <<disk, written, startRes, shutdown, nonForkVars>>

\* Some more bytes of the record reach the file; with the last of them
\* write_status returns Ok.
WriteBytes(r) ==
    /\ fk[r].pc = "write"
    /\ LET bytes == serialize(fk[r].w.rec)
       IN \E k \in (fk[r].w.sent + 1)..Len(bytes) :
             /\ disk' = AppendBytes(disk, r, FORK_STATUS_FILE,
                                    SubSeq(bytes, fk[r].w.sent + 1, k))
             /\ fk' = [fk EXCEPT ![r].w.sent = k,
                                 ![r].pc = IF k = Len(bytes) THEN fk[r].w.ok ELSE @]
             /\ written' = IF k = Len(bytes)
                           THEN [written EXCEPT ![r] = Append(@, fk[r].w.rec)]
                           ELSE written
    /\ UNCHANGED <<startRes, shutdown, nonForkVars>>

\* copy_dir_recursive copies the next file, in the order read_dir gives,
\* and writes InProgress; a failure of that write ends the copy with Err.
CopyFile(r, p) ==
    /\ fk[r].pc = "copy"
    /\ disk[fk[r].src].exists
    /\ p \in ToCopy(disk, fk[r].src, fk[r].done)
    /\ disk' = fs_copy(disk, fk[r].src, r, p)
    /\ fk' = [fk EXCEPT ![r].copied = @ + 1, ![r].done = @ \cup {p}, ![r].pc = "write",
                        ![r].w = BeginWrite(InProgress(Progress(fk[r].copied + 1,
                                                                fk[r].total)),
                                            "copy", "fail")]
    /\ UNCHANGED <<written, startRes, shutdown, nonForkVars>>

\* read_dir, create_dir_all or fs::copy fails (read_dir always does when
\* the source is not there).
CopyFails(r) ==
    /\ fk[r].pc = "copy"
    /\ fk' = [fk EXCEPT ![r].pc = "fail"]
    /\ UNCHANGED <<disk, written, startRes, shutdown, nonForkVars>>

\* copy_dir_recursive returned Ok: the worker writes Complete and ends.
CopyDone(r) ==
    /\ fk[r].pc = "copy"
    /\ disk[fk[r].src].exists
    /\ ToCopy(disk, fk[r].src, fk[r].done) = {}
    /\ fk' = [fk EXCEPT ![r].pc = "write",
                        ![r].w = BeginWrite(FinalStatus(TRUE), "end", "end")]
    /\ UNCHANGED <<disk, written, startRes, shutdown, nonForkVars>>

\* copy_dir_recursive returned Err: the worker writes Failed and ends.
WorkerFail(r) ==
    /\ fk[r].pc = "fail"
    /\ fk' = [fk EXCEPT ![r].pc = "write",
                        ![r].w = BeginWrite(FinalStatus(FALSE), "end", "end")]
    /\ UNCHANGED <<disk, written, startRes, shutdown, nonForkVars>>

\* The server asks the worker of r to stop while it copies.  fork.rs has
\* nothing the worker would look at.
SignalShutdown(r) ==
    /\ fk[r].pc = "copy"
    /\ r \notin shutdown
    /\ shutdown' = shutdown \cup {r}
    /\ UNCHANGED <<disk, fk, written, startRes, nonForkVars>>

Worker(r) ==
    \/ Count(r) \/ WriteFails(r) \/ WriteBytes(r)
    \/ (\E p \in DOMAIN disk[fk[r].src].files : CopyFile(r, p))
    \/ CopyFails(r) \/ CopyDone(r) \/ WorkerFail(r)

InitFork ==
    /\ InitRepo0
    /\ InitStoreIdle("local", Files0)
    /\ cache = LruNew(NODE_CACHE_SIZE)
    /\ loads = 0
    /\ InitExtIdle

NextFork ==
    \/ \E a, b \in Repos : StartFork(a, b)
    \/ \E r \in Repos : Worker(r)
    \/ \E r \in Repos : SignalShutdown(r)

SpecFork == InitFork /\ [][NextFork]_vars

\* The worker is a thread of its own: it is scheduled until it returns.
SpecForkFair == SpecFork /\ \A r \in Repos : WF_vars(Worker(r))

----------------------------------------------------------------------------
(* Properties of forks *)

\* C22: start_fork on a destination that exists returns an error at once,
\* spawns no worker and leaves the destination (no status record is
\* written) and the source as they were.
C22_ExistingDestinationRejected ==
    [][startRes' # startRes =>
          LET call == startRes'[Len(startRes')]
          IN call.existed => /\ call.res.kind = "err"
                             /\ disk' = disk
                             /\ fk' = fk
                             /\ written' = written]_vars

\* start_fork was called on a destination that has the log of a fork.
C22_Witness ==
    \E i \in 1..Len(startRes) :
        /\ startRes[i].existed
        /\ startRes[i].res.kind = "err"
        /\ HasFile(disk, startRes[i].dst, FORK_STATUS_FILE)

\* C23: whenever get_fork_status reports Complete for a destination, every
\* file of the source outside a workspaces directory (the source's own status
\* log aside) is in the destination with the same bytes, and the destination
\* has no workspaces directory; the source may be the destination of an
\* earlier fork.
C23_CompleteMeansCopied ==
    \A r \in Repos :
        (fk[r].pc # "none" /\ get_fork_status(disk, r) = ForkOk(Complete)) =>
            /\ \A p \in DOMAIN disk[fk[r].src].files :
                  (~Skipped(p) /\ p # FORK_STATUS_FILE) =>
                      /\ HasFile(disk, r, p)
                      /\ disk[r].files[p] = disk[fk[r].src].files[p]
            /\ \A p \in DOMAIN disk[r].files : ~Skipped(p)

\* C24: at any moment, a record being partly written included,
\* get_fork_status returns the last record that was completely appended, or
\* status-not-found when there is none; never a corrupt-log error and never
\* a record that was not written for this fork.
C24_ReaderSeesLastAppended ==
    \A r \in Repos :
        get_fork_status(disk, r) =
            IF written[r] = <<>> THEN fork_status_not_found
            ELSE ForkOk(written[r][Len(written[r])])

IsPrefix(s, t) == Len(s) <= Len(t) /\ SubSeq(t, 1, Len(s)) = s

\* C25: the status log is append-only: no step of a fork, a status write or
\* a file copy into the destination, truncates it, overwrites it or removes
\* records from it.
C25_LogAppendOnly ==
    [][\A r \in Repos :
          HasFile(disk, r, FORK_STATUS_FILE) =>
              /\ HasFile(disk', r, FORK_STATUS_FILE)
              /\ IsPrefix(disk[r].files[FORK_STATUS_FILE],
                          disk'[r].files[FORK_STATUS_FILE])]_vars

\* The last record of the log of r is Complete or Failed.
LastIsTerminal(r) ==
    LET s == get_fork_status(disk, r)
    IN s.kind = "ok" /\ s.val[1] \in {"Complete", "Failed"}

\* The worker of r returned and the write of its final record had failed.
TerminalWriteFailed(r) == fk[r].pc = "end" /\ fk[r].w.sent = 0

C27_ShutdownCancels ==
    \A r \in Repos :
        [](r \in shutdown => <>(get_fork_status(disk, r) = ForkOk(Failed(Cancelled))))

\* The place of what get_fork_status returns in the order status-not-found,
\* Counting, InProgress, Complete or Failed.
StatusRank(s) ==
    IF s = fork_status_not_found THEN 0
    ELSE IF s.kind # "ok" THEN -1
    ELSE CASE s.val[1] = "Started" -> 0
           [] s.val[1] = "Counting" -> 1
           [] s.val[1] = "InProgress" -> 2
           [] s.val[1] \in {"Complete", "Failed"} -> 3

\* C34: what a reader observes for a destination never goes backwards in
\* the order status-not-found, Counting, InProgress, Complete or Failed, and
\* once Complete or Failed was returned every later call returns the same.
C34_StatusNeverGoesBack ==
    [][\A r \in Repos :
          LET before == get_fork_status(disk, r)
              after == get_fork_status(disk', r)
          IN /\ StatusRank(after) >= StatusRank(before)
             /\ StatusRank(before) = 3 => after = before]_vars

\* The InProgress values among the records appended for r, in order.
ProgressValues(r) ==
    LET recs == SelectSeq(written[r], LAMBDA st : st[1] = "InProgress")
    IN [i \in 1..Len(recs) |-> recs[i][2]]

----------------------------------------------------------------------------
(* Threads that call read_node and read_depth.  with_node_cache locks the   *)
(* mutex of the repository's cache and runs the whole operation, the reads  *)
(* of node DBs included, before the guard is dropped.                       *)

nonThreadVars == <<repoVars, storeVars, forkVars, cv, registryVars>>

\* What the threads ask for: the commit, its root directory and a hash that
\* no node has.
ThreadRequests ==
    {q \in ReadNodeRequests \cup ReadDepthRequests :
        q.hash \in {Commit0, RootDir0.hash, MissingHash}}

\* read_node_cached and read_depth_cached go to the node DB at their own
\* level: MerkleNodeDB::exists on a miss, open_read_only when the entry does
\* not satisfy the request.  (The loads reconstruct_from_cache makes for
\* children that are not in the cache are not counted.)
OpensNodeDB(q, c) ==
    LET g == LruGet(c, q.hash)
    IN IF ~IsSome(g.val) THEN TRUE
       ELSE /\ ~satisfies_depth(Unwrap(g.val), q.depth, q.recurse)
            /\ ~is_leaf(Unwrap(g.val).node)

\* A thread calls read_node or read_depth.
CallLoader(t, q) ==
    /\ thr[t].pc = "idle"
    /\ loads < MaxLoads
    /\ thr' = [thr EXCEPT ![t] = [pc |-> "lock", q |-> Some(q)]]
    /\ loads' = loads + 1
    /\ UNCHANGED <<cache, mutex, nonThreadVars>>

\* with_node_cache: cache_arc.lock().
LockCache(t) ==
    /\ thr[t].pc = "lock"
    /\ mutex = {}
    /\ mutex' = {t}
    /\ thr' = [thr EXCEPT ![t].pc = "locked"]
    /\ UNCHANGED <<cacheVars, nonThreadVars>>

\* The operation is answered from the cache.
ServeFromCache(t) ==
    /\ thr[t].pc = "locked"
    /\ ~OpensNodeDB(Unwrap(thr[t].q), cache)
    /\ cache' = Answer(nodeDBs, dirHashes, Unwrap(thr[t].q), cache).cache
    /\ thr' = [thr EXCEPT ![t].pc = "unlock"]
    /\ UNCHANGED <<loads, mutex, nonThreadVars>>

\* The operation calls into MerkleNodeDB and blocks on the disk.
OpenNodeDB(t) ==
    /\ thr[t].pc = "locked"
    /\ OpensNodeDB(Unwrap(thr[t].q), cache)
    /\ thr' = [thr EXCEPT ![t].pc = "node_db"]
    /\ UNCHANGED <<cacheVars, mutex, nonThreadVars>>

\* The reads of the node DBs return and the nodes are put into the cache.
LoadFromNodeDB(t) ==
    /\ thr[t].pc = "node_db"
    /\ cache' = Answer(nodeDBs, dirHashes, Unwrap(thr[t].q), cache).cache
    /\ thr' = [thr EXCEPT ![t].pc = "unlock"]
    /\ UNCHANGED <<loads, mutex, nonThreadVars>>

\* with_node_cache returns: the guard is dropped.
UnlockCache(t) ==
    /\ thr[t].pc = "unlock"
    /\ mutex' = mutex \ {t}
    /\ thr' = [thr EXCEPT ![t] = ThreadIdle]
    /\ UNCHANGED <<cacheVars, nonThreadVars>>

InitThreads ==
    /\ InitRepo0
    /\ InitStoreIdle("local", Files0)
    /\ cache = LruNew(NODE_CACHE_SIZE)
    /\ loads = 0
    /\ InitExtIdle

NextThreads ==
    \E t \in Threads :
        \/ (\E q \in ThreadRequests : CallLoader(t, q))
        \/ LockCache(t) \/ ServeFromCache(t) \/ OpenNodeDB(t) \/ LoadFromNodeDB(t)
        \/ UnlockCache(t)

SpecThreads == InitThreads /\ [][NextThreads]_vars

\* C21: the mutex of the NodeCache is held only for in-memory work: no
\* thread opens or reads a node DB while it holds the mutex.
C21_NoDiskUnderMutex ==
    \A t \in Threads : thr[t].pc = "node_db" => t \notin mutex

----------------------------------------------------------------------------
(* core/cache/cachers/content_validator.rs: compute, step by step.          *)

nonValidatorVars ==
    <<repoVars, cacheVars, storeVars, forkVars, threadVars, registryVars>>

\* commit_validator::validate_tree_hash: whether the tree of the commit
\* hashes to what the commit records; an error when it cannot be read.
validate_tree_hash(tree) ==
    IF tree = "unreadable" THEN [kind |-> "err", val |-> FALSE]
    ELSE [kind |-> "ok", val |-> tree = "valid"]

\* compute is started on a commit, for the first time or again.
StartCompute(c) ==
    /\ cv[c].pc \in {"idle", "returned Ok", "returned Err", "panicked"}
    /\ \E tree \in {"valid", "invalid", "unreadable"} :
          cv' = [cv EXCEPT ![c].pc = "calc", ![c].i = 0, ![c].tree = tree]
    /\ UNCHANGED nonValidatorVars

\* The calculation loop with its sleeps of 100 ms.
Calculate(c) ==
    /\ cv[c].pc = "calc"
    /\ cv' = IF cv[c].i < CalcSleeps THEN [cv EXCEPT ![c].i = @ + 1]
             ELSE [cv EXCEPT ![c].pc = "files", ![c].i = 0]
    /\ UNCHANGED nonValidatorVars

\* A temporary file is created, written and synced.
TempFile(c) ==
    /\ cv[c].pc = "files"
    /\ cv' = IF cv[c].i < TempFiles THEN [cv EXCEPT ![c].i = @ + 1]
             ELSE [cv EXCEPT ![c].pc = "latency", ![c].i = 0]
    /\ UNCHANGED nonValidatorVars

\* File::create, write_all or sync_all returns Err: unwrap panics.
TempFilePanics(c) ==
    /\ cv[c].pc = "files"
    /\ cv[c].i < TempFiles
    /\ cv' = [cv EXCEPT ![c].pc = "panicked"]
    /\ UNCHANGED nonValidatorVars

\* The sleeps of 1000 s, then the sleep of 100 ms.
Latency(c) ==
    /\ cv[c].pc = "latency"
    /\ cv' = IF cv[c].i < LatencySleeps THEN [cv EXCEPT ![c].i = @ + 1]
             ELSE [cv EXCEPT ![c].pc = "validate", ![c].i = 0]
    /\ UNCHANGED nonValidatorVars

\* validate_tree_hash(repo, commit)?
Validate(c) ==
    /\ cv[c].pc = "validate"
    /\ cv' = [cv EXCEPT ![c].pc = IF validate_tree_hash(cv[c].tree).kind = "ok"
                                  THEN "write" ELSE "returned Err"]
    /\ UNCHANGED nonValidatorVars

\* write_is_valid(repo, commit, "true" / "false")?
WriteIsValid(c) ==
    /\ cv[c].pc = "write"
    /\ cv' = [cv EXCEPT ![c].pc = "returned Ok",
                        ![c].is_valid = IF validate_tree_hash(cv[c].tree).val
                                        THEN Some("true") ELSE Some("false"),
                        ![c].finished = @ \cup {validate_tree_hash(cv[c].tree).val}]
    /\ UNCHANGED nonValidatorVars

\* write_to_path returns Err.
WriteIsValidFails(c) ==
    /\ cv[c].pc = "write"
    /\ cv' = [cv EXCEPT ![c].pc = "returned Err"]
    /\ UNCHANGED nonValidatorVars

\* read_is_valid: the content of the file, Err when there is none.
read_is_valid(file) ==
    IF file = None THEN [kind |-> "err", val |-> ""]
    ELSE [kind |-> "ok", val |-> Unwrap(file)]

\* A bug: a commit without an is_valid file counts as valid.
is_valid_ErrIsTrue(file) ==
    IF read_is_valid(file).kind = "ok"
    THEN [kind |-> "ok", val |-> read_is_valid(file).val = "true"]
    ELSE [kind |-> "ok", val |-> TRUE]

is_valid(file) ==
    IF read_is_valid(file).kind = "ok"
    THEN [kind |-> "ok", val |-> read_is_valid(file).val = "true"]
    ELSE [kind |-> "ok", val |-> FALSE]

\* is_valid(repo, commit) is called, at any time.
IsValid(c) ==
    /\ cv' = [cv EXCEPT ![c].answer = Some(is_valid(cv[c].is_valid))]
    /\ UNCHANGED nonValidatorVars

Compute(c) ==
    \/ Calculate(c) \/ TempFile(c) \/ TempFilePanics(c) \/ Latency(c)
    \/ Validate(c) \/ WriteIsValid(c) \/ WriteIsValidFails(c)

InitValidator ==
    /\ InitRepo0
    /\ InitStoreIdle("local", Files0)
    /\ cache = LruNew(NODE_CACHE_SIZE)
    /\ loads = 0
    /\ InitExtIdle

NextValidator == \E c \in ValidatedCommits : StartCompute(c) \/ Compute(c) \/ IsValid(c)

SpecValidator == InitValidator /\ [][NextValidator]_vars

\* compute runs on a thread that is scheduled until it returns.
SpecValidatorFair == SpecValidator /\ \A c \in ValidatedCommits : WF_vars(Compute(c))

\* C28: for every commit on which compute is started, compute eventually
\* returns having written is_valid for the commit: "true" if
\* validate_tree_hash holds for it, "false" otherwise.
C28_ComputeSetsIsValid ==
    \A c \in ValidatedCommits :
        [](cv[c].pc # "idle" =>
              <>(/\ cv[c].pc \in {"returned Ok", "returned Err"}
                 /\ cv[c].is_valid = IF cv[c].tree = "valid" THEN Some("true")
                                     ELSE Some("false")))

\* A step in which is_valid is called on c and returns another answer.
IsValidReturns(c) ==
    /\ cv'[c].answer # cv[c].answer
    /\ cv'[c] = [cv[c] EXCEPT !.answer = cv'[c].answer]

\* C39: is_valid(commit) never returns an error; it returns true only if
\* the last value written for the commit is "true", which a compute whose
\* validate_tree_hash was true has written; while no value has been written
\* for the commit it returns false.
C39_IsValidOnlyAfterTrue ==
    [][\A c \in ValidatedCommits :
          IsValidReturns(c) =>
              /\ Unwrap(cv'[c].answer).kind = "ok"
              /\ Unwrap(cv'[c].answer).val =>
                    (cv[c].is_valid = Some("true") /\ TRUE \in cv[c].finished)
              /\ cv[c].is_valid = None => ~Unwrap(cv'[c].answer).val]_vars

\* is_valid returned true for a commit, and returned false for it before a
\* value was written and after a later compute wrote "false".
C39_Witness ==
    \E c, d \in ValidatedCommits :
        /\ cv[c].answer = Some([kind |-> "ok", val |-> TRUE])
        /\ cv[c].finished = {TRUE} /\ cv[c].pc = "returned Ok"
        /\ cv[d].answer = Some([kind |-> "ok", val |-> FALSE])
        /\ cv[d].is_valid = None

----------------------------------------------------------------------------
(* NODE_CACHES: the registry of the caches, one Arc<Mutex<LruCache>> per    *)
(* repository path, behind a mutex of its own.  The repositories are clones *)
(* of the same commit.                                                      *)

nonRegistryVars == <<repoVars, cache, storeVars, forkVars, threadVars, cv>>

\* What the threads ask for.
RegistryRequests ==
    {Request("read_node", Commit0, -1, TRUE, <<>>),
     Request("read_depth", RootDir0.hash, 0, FALSE, <<>>)}

NewArc(repo, born) == [repo |-> repo, born |-> born, holder |-> {}, cache |-> LruNew(NODE_CACHE_SIZE)]

\* A bug: remove_node_cache leaves the entry in the map.
remove_entry_Keeps(map, repo) == map

\* caches.remove(path)
remove_entry(map, repo) == [map EXCEPT ![repo] = 0]

\* A bug: the guard of the cache mutex is not dropped.
DropGuard_Leaks(holder, t) == holder

\* The MutexGuard of thread t goes out of scope.
DropGuard(holder, t) == holder \ {t}

\* A thread calls read_node or read_depth on a repository.
CallRead(t, repo, q) ==
    /\ ru[t].pc = "idle"
    /\ loads < MaxLoads
    /\ loads' = loads + 1
    /\ ru' = [ru EXCEPT ![t] = [pc |-> "registry", repo |-> repo, q |-> Some(q),
                                arc |-> 0, start |-> registry.removed[repo]]]
    /\ UNCHANGED <<registry, arcs, nonRegistryVars>>

\* A thread calls remove_node_cache on a repository.
CallRemove(t, repo) ==
    /\ ru[t].pc = "idle"
    /\ loads < MaxLoads
    /\ loads' = loads + 1
    /\ ru' = [ru EXCEPT ![t] = [CallIdle EXCEPT !.pc = "remove", !.repo = repo]]
    /\ UNCHANGED <<registry, arcs, nonRegistryVars>>

\* NODE_CACHES.lock()
LockRegistry(t) ==
    /\ ru[t].pc \in {"registry", "remove"}
    /\ registry.holder = {}
    /\ registry' = [registry EXCEPT !.holder = {t}]
    /\ ru' = [ru EXCEPT ![t].pc = IF ru[t].pc = "registry" THEN "in registry"
                                  ELSE "removing"]
    /\ UNCHANGED <<arcs, loads, nonRegistryVars>>

\* with_node_cache: the cache of the repository is looked up, created when
\* the map has none, and its Arc cloned; the registry guard is dropped at the
\* end of the block.
GetCache(t) ==
    /\ ru[t].pc = "in registry"
    /\ LET repo == ru[t].repo
           id == IF registry.map[repo] = 0 THEN Len(arcs) + 1 ELSE registry.map[repo]
       IN /\ arcs' = IF registry.map[repo] = 0
                     THEN Append(arcs, NewArc(repo, registry.removed[repo]))
                     ELSE arcs
          /\ registry' = [registry EXCEPT !.map[repo] = id,
                                          !.holder = DropGuard(@, t)]
          /\ ru' = [ru EXCEPT ![t].pc = "lock cache", ![t].arc = id]
    /\ UNCHANGED <<loads, nonRegistryVars>>

\* remove_node_cache: the entry is removed and the call returns.
RemoveEntry(t) ==
    /\ ru[t].pc = "removing"
    /\ registry' = [registry EXCEPT !.map = remove_entry(@, ru[t].repo),
                                    !.removed[ru[t].repo] = @ + 1,
                                    !.holder = DropGuard(@, t)]
    /\ ru' = [ru EXCEPT ![t] = CallIdle]
    /\ UNCHANGED <<arcs, loads, nonRegistryVars>>

\* cache_arc.lock()
LockArc(t) ==
    /\ ru[t].pc = "lock cache"
    /\ arcs[ru[t].arc].holder = {}
    /\ arcs' = [arcs EXCEPT ![ru[t].arc].holder = {t}]
    /\ ru' = [ru EXCEPT ![t].pc = "operation"]
    /\ UNCHANGED <<registry, loads, nonRegistryVars>>

\* operation(&mut *cache): read_node_cached or read_depth_cached.
Operation(t) ==
    /\ ru[t].pc = "operation"
    /\ arcs' = [arcs EXCEPT ![ru[t].arc].cache =
                   Answer(nodeDBs, dirHashes, Unwrap(ru[t].q), @).cache]
    /\ ru' = [ru EXCEPT ![t].pc = "unlock"]
    /\ UNCHANGED <<registry, loads, nonRegistryVars>>

\* with_node_cache returns.
UnlockArc(t) ==
    /\ ru[t].pc = "unlock"
    /\ arcs' = [arcs EXCEPT ![ru[t].arc].holder = DropGuard(@, t)]
    /\ ru' = [ru EXCEPT ![t] = CallIdle]
    /\ UNCHANGED <<registry, loads, nonRegistryVars>>

RegistryStep(t) ==
    \/ LockRegistry(t) \/ GetCache(t) \/ RemoveEntry(t)
    \/ LockArc(t) \/ Operation(t) \/ UnlockArc(t)

InitRegistry ==
    /\ InitRepo0
    /\ InitStoreIdle("local", Files0)
    /\ cache = LruNew(NODE_CACHE_SIZE)
    /\ loads = 0
    /\ InitExtIdle

NextRegistry ==
    \E t \in Threads :
        \/ (\E repo \in CachedRepos, q \in RegistryRequests : CallRead(t, repo, q))
        \/ (\E repo \in CachedRepos : CallRemove(t, repo))
        \/ RegistryStep(t)

SpecRegistry == InitRegistry /\ [][NextRegistry]_vars

\* The steps of a thread that take or release a mutex.
MutexStep(t) ==
    \/ LockRegistry(t) \/ GetCache(t) \/ RemoveEntry(t)
    \/ LockArc(t) \/ UnlockArc(t)

\* Every thread is scheduled, and an operation on a cache returns: it is a
\* load of a finite tree.  The calls are finitely many, so a thread that
\* waits for a mutex finds it free from some point on.
SpecRegistryFair ==
    /\ SpecRegistry
    /\ \A t \in Threads : WF_vars(MutexStep(t))
    /\ \A t \in Threads : []<>(ru[t].pc # "operation")

\* The thread t has the cache it works on.
HasArc(t) == ru[t].pc \in {"lock cache", "operation", "unlock"}

\* C36 as stated: remove_node_cache(repo) drops only that repository's
\* cache: every read on repo that starts after it returned begins with an
\* empty cache, also when another read on repo went on during the removal;
\* the caches of the other repositories are unchanged.
C36_ReadAfterRemoveStartsEmpty ==
    /\ [](\A t \in Threads :
             (ru[t].pc = "operation" /\ ru[t].start > 0)
                 => arcs[ru[t].arc].cache.items = <<>>)
    /\ [][\A t \in Threads :
             (ru[t].pc = "removing" /\ ru'[t].pc = "idle") =>
                 /\ arcs' = arcs
                 /\ \A p \in CachedRepos \ {ru[t].repo} :
                       registry'.map[p] = registry.map[p]]_vars

\* C36, amended: remove_node_cache(repo) drops only that repository's
\* cache: the removed cache is never registered again, a cache is created
\* empty, and every read on repo that starts after the removal returned
\* works on a cache created after the removal, which holds what the reads
\* since the removal have put into it; a read that went on during the
\* removal keeps the cache it had; the caches of the other repositories are
\* unchanged.
C36_RemoveDropsOnlyThatCache ==
    /\ [](\A p \in CachedRepos :
             registry.map[p] # 0 => /\ arcs[registry.map[p]].repo = p
                                    /\ arcs[registry.map[p]].born = registry.removed[p])
    /\ [](\A t \in Threads :
             HasArc(t) => /\ arcs[ru[t].arc].repo = ru[t].repo
                          /\ arcs[ru[t].arc].born >= ru[t].start)
    /\ [][Len(arcs') > Len(arcs) => arcs'[Len(arcs')].cache.items = <<>>]_vars
    /\ [][\A t \in Threads :
             (ru[t].pc = "removing" /\ ru'[t].pc = "idle") =>
                 /\ arcs' = arcs
                 /\ registry'.map[ru[t].repo] = 0
                 /\ \A p \in CachedRepos \ {ru[t].repo} :
                       registry'.map[p] = registry.map[p]]_vars

\* A read started after a removal works on a new cache while a read that
\* was going on during the removal still fills the old one.
C36_Witness ==
    \E t, u \in Threads :
        /\ ru[t].pc = "operation" /\ ru[u].pc = "operation"
        /\ ru[t].repo = ru[u].repo
        /\ ru[t].start < ru[u].start
        /\ ru[t].arc # ru[u].arc
        /\ arcs[ru[u].arc].cache.items = <<>>

\* C37: every call of read_node, read_depth and remove_node_cache
\* completes: no thread waits for the registry mutex or for a cache mutex
\* forever.  A thread that waits for or holds a cache mutex does not hold
\* the registry mutex, and no thread waits for a mutex it holds.
C37_AllCallsComplete ==
    /\ \A t \in Threads : [](ru[t].pc # "idle" => <>(ru[t].pc = "idle"))
    /\ [](\A t \in Threads :
             /\ HasArc(t) => t \notin registry.holder
             /\ ru[t].pc \in {"registry", "remove"} => t \notin registry.holder
             /\ ru[t].pc = "lock cache" => t \notin arcs[ru[t].arc].holder)

\* A thread waits for the cache mutex that another thread holds.
C37_Witness ==
    \E t, u \in Threads :
        /\ ru[t].pc = "lock cache" /\ ru[u].pc = "operation"
        /\ ru[t].arc = ru[u].arc
        /\ registry.holder = {}

----------------------------------------------------------------------------
(* root_with_unique_children: the tree of a commit without what it shares  *)
(* with a base, the hashes of the shared nodes, and the files of the rest  *)
(* as PartialNodes by path.                                                *)

\* current_path.join(name)
join(path, name) == IF name = "" THEN path ELSE Append(path, name)

Unique(node, shared_hashes, partial_nodes) == [node |-> node, shared_hashes |-> shared_hashes, partial_nodes |-> partial_nodes]

\* partial_nodes.insert(file_path, PartialNode::from(hash, ..))
insert(partial_nodes, file_path, hash) ==
    [q \in DOMAIN partial_nodes \cup {file_path} |->
        IF q = file_path THEN hash ELSE partial_nodes[q]]

RECURSIVE load_unique_children(_, _, _, _, _)
RECURSIVE UniqueLoop(_, _, _, _, _, _)

\* node.children.push(child) after the recursive call on the child.
UniqueNext(db, children, i, node, current_path, base_hashes, r) ==
    UniqueLoop(db, children, i + 1, current_path, base_hashes,
               Unique(Push(node, r.node), r.shared_hashes, r.partial_nodes))

\* for (_key, child) in children
UniqueLoop(db, children, i, current_path, base_hashes, u) ==
    IF i > Len(children) THEN u
    ELSE LET child == children[i]
         IN IF HasChildren(node_type(child.node))
            THEN IF ~MerkleNodeDB_exists(db, child.hash)
                 THEN u
                 ELSE UniqueNext(db, children, i, u.node, current_path, base_hashes,
                          load_unique_children(db,
                              IF node_type(child.node) = "Dir"
                              THEN join(current_path, child.node.name)
                              ELSE current_path,
                              base_hashes,
                              Unique(child, u.shared_hashes, u.partial_nodes),
                              child.hash))
            ELSE UniqueLoop(db, children, i + 1, current_path, base_hashes,
                     Unique(Push(u.node, child), u.shared_hashes,
                            IF node_type(child.node) = "File"
                            THEN insert(u.partial_nodes,
                                        join(current_path, child.node.name), child.hash)
                            ELSE u.partial_nodes))

load_unique_children(db, current_path, base_hashes, u, hash) ==
    IF ~HasChildren(node_type(u.node.node)) THEN u
    ELSE IF hash \in base_hashes
         THEN Unique(u.node, u.shared_hashes \cup {hash}, u.partial_nodes)
         ELSE UniqueLoop(db, MerkleNodeDB_map(db, hash), 1, current_path, base_hashes, u)

read_unique_nodes(db, hash, base_hashes) ==
    IF ~MerkleNodeDB_exists(db, hash) THEN None
    ELSE Some(load_unique_children(db, <<>>, base_hashes,
                                   Unique(from_hash(db, hash), {}, <<>>), hash))

root_with_unique_children(db, commit, base_hashes) == read_unique_nodes(db, commit.hash, base_hashes)

\* The hashes of the Dir and VNode nodes of a tree.
DirAndVNodeHashes(t) == {n.hash : n \in {x \in AllNodes(t) : node_type(x.node) \in {"Dir", "VNode"}}}

RECURSIVE FilesOutside(_, _, _)
\* The files of a tree that lie under no node of the set, by path.
FilesOutside(t, path, shared) ==
    IF t.hash \in shared /\ HasChildren(node_type(t.node)) THEN {}
    ELSE IF node_type(t.node) = "File" THEN {<<join(path, t.node.name), t.hash>>}
    ELSE UNION {FilesOutside(t.children[i],
                             IF node_type(t.node) = "Dir" THEN join(path, t.node.name)
                             ELSE path, shared) : i \in 1..Len(t.children)}

UniqueOf(c, b) == Unwrap(root_with_unique_children(nodeDBs, commits[c], DirAndVNodeHashes(TreeOf(commits[b]))))

\* shared_hashes is the set of the Dir and VNode hashes the trees share.
SharedExact(c, b) ==
    UniqueOf(c, b).shared_hashes
        = DirAndVNodeHashes(TreeOf(commits[c])) \cap DirAndVNodeHashes(TreeOf(commits[b]))

\* The returned tree has no children of a shared node.
SharedNotLoaded(c, b) ==
    \A n \in AllNodes(UniqueOf(c, b).node) :
        n.hash \in UniqueOf(c, b).shared_hashes => n.children = <<>>

\* partial_nodes has the files under no shared node, by full path.
PartialExact(c, b) ==
    {<<q, UniqueOf(c, b).partial_nodes[q]>> : q \in DOMAIN UniqueOf(c, b).partial_nodes}
        = FilesOutside(TreeOf(commits[c]), <<>>, UniqueOf(c, b).shared_hashes)

\* C38: after root_with_unique_children(commit, base_hashes), with the
\* Dir and VNode hashes of another commit as base_hashes, shared_hashes is
\* exactly the set of Dir and VNode hashes that occur in the commit's tree
\* and in base_hashes, the returned tree has no children of a shared node,
\* and partial_nodes has exactly one entry, by full path, for every file of
\* the commit under no shared node.
C38_UniqueChildren ==
    \A c, b \in 1..Len(commits) :
        c # b => SharedExact(c, b) /\ SharedNotLoaded(c, b) /\ PartialExact(c, b)

\* The parts of C38 about the returned tree and partial_nodes.
C38_TreeAndPartialNodes ==
    \A c, b \in 1..Len(commits) :
        c # b => SharedNotLoaded(c, b) /\ PartialExact(c, b)

====
